---- MODULE Spec2Model ----
(***************************************************************************)
(* Neuro-Sync server: the session-state and decision-fusion engine.       *)
(*                                                                         *)
(* The model follows server/models.py (SessionState, CoachingEvent),      *)
(* server/gemini_coach.py (analyze, _analyze_hook, fusion, cooldown gate, *)
(* LiveCoach) and server/routes.py (session registry, /analyze, DELETE).  *)
(*                                                                         *)
(* The server runs on one asyncio event loop: a handler runs atomically   *)
(* from one await that really suspends to the next one.  Every action     *)
(* below is one such stretch of code.  Scores and confidences are in      *)
(* ten-thousandths (0.70 is 7000, 0.9004 is 9004), one digit finer than   *)
(* the three decimals the fusion rounds to; wall-clock time is in whole   *)
(* seconds.                                                                *)
(***************************************************************************)
EXTENDS Integers, Sequences, FiniteSets, TLC

(***************************************************************************)
(* Bounds of the model.                                                    *)
(***************************************************************************)
MaxCycles == 2      \* analyze calls that reach an await, over the whole run
MaxTime   == 15     \* seconds of wall-clock time after the first request
MaxObjs   == 2      \* SessionState objects ever constructed
MaxHistory == 3     \* record() calls in a run that calls record() directly
MaxTimeline == 5    \* events after the hook in a history a report is asked for

(***************************************************************************)
(* Program constants.                                                      *)
(***************************************************************************)
HOOK_DURATION   == 3
REQUEST_TIMEOUT == 12
DEFAULT_BACKOFF == 15
\* time.time() of the first request.  Any value larger than every cooldown
\* works: last_event_time.get(kind, 0.0) then reads as "long ago".
Epoch == 100

\* resolution of the modelled clock
ClockStep == HOOK_DURATION

\* the session ids in use: one client, or two clients with an id each
OneClient  == {"s1"}
TwoClients == {"s1", "s2"}

\* the JPEG frames a client uploads
Images == {"jpg1"}

EventTypes ==
    {"GOOD", "SPEED_UP", "VIBE_CHECK", "RAISE_ENERGY", "VISUAL_RESET",
     "HOOK_GOOD", "HOOK_WEAK"}

COOLDOWN_SECONDS(kind) ==
    CASE kind = "GOOD"         -> 0
      [] kind = "SPEED_UP"     -> 8
      [] kind = "VIBE_CHECK"   -> 10
      [] kind = "RAISE_ENERGY" -> 10
      [] kind = "VISUAL_RESET" -> 12
      [] kind = "HOOK_GOOD"    -> 0
      [] kind = "HOOK_WEAK"    -> 0
      [] OTHER                 -> 8

Min(a, b) == IF a <= b THEN a ELSE b
Max(a, b) == IF a >= b THEN a ELSE b

\* n / d rounded to the nearest integer, ties to even (Python's round), n >= 0
RoundDiv(n, d) ==
    LET q == n \div d
        r == n % d
    IN  IF 2 * r < d THEN q
        ELSE IF 2 * r > d THEN q + 1
        ELSE IF q % 2 = 0 THEN q ELSE q + 1

\* round(n / d, 3) for a score given as n / d ten-thousandths: the nearest
\* multiple of 0.001
Round3(n, d) == 10 * RoundDiv(n, 10 * d)

(***************************************************************************)
(* CoachingEvent (models.py).  detail is LCD line 2: a literal text or    *)
(* the score bar, kept as its number of filled blocks and its percentage. *)
(***************************************************************************)
CoachingEvent(kind, score, message, detail, buzz, pattern, conf, ts, phase, reasoning) ==
    [event |-> kind, score |-> score, message |-> message, detail |-> detail,
     buzz |-> buzz, buzz_pattern |-> pattern, confidence |-> conf,
     timestamp |-> ts, phase |-> phase, reasoning |-> reasoning]

NoDetail == [text |-> "", filled |-> 0, pct |-> 0]

score_bar(score) == [text |-> "bar", filled |-> score \div 1000, pct |-> score \div 100]

\* gemini_coach is imported, and its two fallback events built, before the
\* first request
ServerStart == Epoch - 1

HOOK_FALLBACK ==
    CoachingEvent("HOOK_GOOD", 6500, "HOOK EVAL...", NoDetail, FALSE, "single", 0,
                  ServerStart, "hook", "Hook evaluation in progress")

FALLBACK_mut ==
    CoachingEvent("GOOD", 5000, "HOOK EVAL...", NoDetail, FALSE, "single", 0,
                  ServerStart, "normal", "")

FALLBACK ==
    CoachingEvent("GOOD", 7000, "CONNECTING...", NoDetail, FALSE, "single", 0,
                  ServerStart, "normal", "")

\* the "collecting" placeholder built by analyze during the hook phase
Collecting(t) ==
    CoachingEvent("GOOD", 5000, "HOOK EVAL...",
                  [text |-> "Collecting...", filled |-> 0, pct |-> 0], FALSE, "single",
                  10000, t, "hook", "Analyzing your opening...")

(***************************************************************************)
(* SessionState (models.py).  last_event_time maps a kind to the time of  *)
(* its last record, 0 when the kind is not in the dict.  hook_started is  *)
(* a history variable: the number of _analyze_hook calls on this object.  *)
(***************************************************************************)
NewSessionState ==
    [history              |-> <<>>,
     last_event_time      |-> [k \in EventTypes |-> 0],
     consecutive_good     |-> 0,
     consecutive_bad      |-> 0,
     phase                |-> "hook",
     recording_start_time |-> 0,
     hook_results         |-> <<>>,
     hook_evaluated       |-> FALSE,
     hook_buffer_image    |-> "",
     hook_buffer_audio    |-> "none",
     hook_started         |-> 0]

record_mut_front(s, e, t) ==
    [s EXCEPT !.history = <<e>> \o @,
              !.last_event_time[e.event] = t,
              !.consecutive_good = IF e.event = "GOOD" THEN @ + 1 ELSE 0,
              !.consecutive_bad  = IF e.event = "GOOD" THEN 0 ELSE @ + 1]

record_mut(s, e, t) ==
    [s EXCEPT !.history = Append(@, e),
              !.last_event_time[e.event] = t,
              !.consecutive_good = IF e.event \in {"GOOD", "HOOK_GOOD"} THEN @ + 1 ELSE 0,
              !.consecutive_bad  = IF e.event \in {"GOOD", "HOOK_GOOD"} THEN 0 ELSE @ + 1]

record_mut_buzz(s, e, t) ==
    [s EXCEPT !.history = Append(@, e),
              !.last_event_time[e.event] = IF e.buzz THEN t ELSE @,
              !.consecutive_good = IF e.event = "GOOD" THEN @ + 1 ELSE 0,
              !.consecutive_bad  = IF e.event = "GOOD" THEN 0 ELSE @ + 1]

record(s, e, t) ==
    [s EXCEPT !.history = Append(@, e),
              !.last_event_time[e.event] = t,
              !.consecutive_good = IF e.event = "GOOD" THEN @ + 1 ELSE 0,
              !.consecutive_bad  = IF e.event = "GOOD" THEN 0 ELSE @ + 1]

is_on_cooldown_mut(s, kind, t) ==
    (t - s.last_event_time[kind]) <= COOLDOWN_SECONDS(kind)

is_on_cooldown_mut_le(s, kind, t) ==
    IF kind = "GOOD" THEN FALSE
    ELSE (t - s.last_event_time[kind]) <= COOLDOWN_SECONDS(kind)

is_on_cooldown(s, kind, t) ==
    IF kind = "GOOD" THEN FALSE
    ELSE (t - s.last_event_time[kind]) < COOLDOWN_SECONDS(kind)

update_phase_mut(s, t) ==
    IF s.recording_start_time > 0 /\ t - s.recording_start_time >= HOOK_DURATION
    THEN [s EXCEPT !.phase = IF @ = "hook" THEN "normal" ELSE "hook"]
    ELSE s

update_phase_mut_eager(s, t) ==
    IF s.phase = "hook" /\ s.recording_start_time > 0
    THEN [s EXCEPT !.phase = "normal"]
    ELSE s

update_phase(s, t) ==
    IF s.phase = "hook" /\ s.recording_start_time > 0
       /\ t - s.recording_start_time >= HOOK_DURATION
    THEN [s EXCEPT !.phase = "normal"]
    ELSE s

(***************************************************************************)
(* What a classifier call can produce: an exception, or a reply text.     *)
(* A reply text is empty, not JSON, or a JSON object; a JSON object is    *)
(* kept as its fields, a missing key as "absent" (Absent for a number).   *)
(***************************************************************************)
Absent == 0 - 99999

Json(event, score, message, buzz, pattern, conf, reasoning) ==
    [event |-> event, score |-> score, message |-> message, buzz |-> buzz,
     buzz_pattern |-> pattern, confidence |-> conf, reasoning |-> reasoning]

NoJson == Json("absent", Absent, "absent", "absent", "absent", Absent, "absent")

Raised(msg, delay) == [t |-> "exc",  msg |-> msg, retryDelay |-> delay, p |-> NoJson]
Text(body, p)      == [t |-> body,   msg |-> "",  retryDelay |-> 0,     p |-> p]

NoReply    == Text("none", NoJson)
ExcGeneric == Raised("ConnectionError", 0)
\* "429 RESOURCE_EXHAUSTED ... retryDelay: 2s"
ExcRate    == Raised("429", 2)
EmptyText  == Text("empty", NoJson)
NotJson    == Text("notjson", NoJson)
MissingKey == Text("json", Json("GOOD", Absent, "NICE", "false", "single", 9000, "r"))
UnknownKind == Text("json", Json("DANCE", 5000, "DANCE", "false", "single", 9000, "r"))
SaysGood   == Text("json", Json("GOOD", 9004, "LOCKED IN", "false", "single", 9000, "lively"))
SaysEnergy == Text("json", Json("RAISE_ENERGY", 3000, "KEEP YOUR ENERGY UP", "true", "long", 8000, "flat voice"))
SaysVibe   == Text("json", Json("VIBE_CHECK", 4000, "SMILE MORE", "true", "double", 6000, "blank face"))
SaysHookWeak == Text("json", Json("HOOK_WEAK", 3000, "WEAK HOOK", "true", "double", 7000, "mumbling"))
SaysHookGood == Text("json", Json("HOOK_GOOD", 8000, "GREAT HOOK!", "absent", "absent", Absent, "absent"))

\* replies offered to each call site
AudioReplies      == {ExcGeneric, UnknownKind, SaysEnergy}        \* LiveCoach.analyze
VisionReplies     == {ExcGeneric, EmptyText, SaysVibe}            \* _analyze_vision_only, gathered
VisionOnlyReplies == {ExcGeneric, ExcRate, EmptyText, NotJson, MissingKey, SaysGood}
HookAudioReplies  == {ExcGeneric, SaysEnergy}                     \* _analyze_hook_audio
HookVisionReplies == {EmptyText, SaysHookGood}                    \* _analyze_hook_vision

\* str(message)[:14]
Trunc14(m) == IF Len(m) > 14 THEN SubSeq(m, 1, 14) ELSE m

(***************************************************************************)
(* _parse_gemini_response: the verdict, or the exception it raises.       *)
(***************************************************************************)
Verdict(event, score, message, buzz, pattern, conf, reasoning) ==
    [event |-> event, score |-> score, message |-> message, buzz |-> buzz,
     buzz_pattern |-> pattern, confidence |-> conf, reasoning |-> reasoning]

NoVerdict == Verdict("", 0, "", FALSE, "", 0, "")

_parse_gemini_response_mut(r) ==
    LET p == r.p IN
    IF r.t # "json"
    THEN [ok |-> FALSE, err |-> "JSONDecodeError", v |-> NoVerdict]
    ELSE IF p.event = "absent" \/ p.score = Absent \/ p.message = "absent"
    THEN [ok |-> FALSE, err |-> "ValueError", v |-> NoVerdict]
    ELSE IF p.event \notin EventTypes
    THEN [ok |-> FALSE, err |-> "ValueError", v |-> NoVerdict]
    ELSE [ok |-> TRUE, err |-> "",
          v |-> Verdict(p.event,
                        Max(0, Min(10000, p.score)),
                        Trunc14(p.message),
                        IF p.buzz = "absent" THEN FALSE ELSE p.buzz = "true",
                        IF p.buzz_pattern = "absent" THEN "single" ELSE p.buzz_pattern,
                        IF p.confidence = Absent THEN 10000 ELSE p.confidence,
                        IF p.reasoning = "absent" THEN "" ELSE p.reasoning)]

_parse_gemini_response(r) ==
    LET p == r.p IN
    IF r.t # "json"
    THEN [ok |-> FALSE, err |-> "JSONDecodeError", v |-> NoVerdict]
    ELSE IF p.event = "absent" \/ p.score = Absent \/ p.message = "absent"
    THEN [ok |-> FALSE, err |-> "ValueError", v |-> NoVerdict]
    ELSE IF p.event \notin EventTypes
    THEN [ok |-> FALSE, err |-> "ValueError", v |-> NoVerdict]
    ELSE [ok |-> TRUE, err |-> "",
          v |-> Verdict(p.event,
                        Max(0, Min(10000, p.score)),
                        Trunc14(p.message),
                        IF p.buzz = "absent" THEN FALSE ELSE p.buzz = "true",
                        IF p.buzz_pattern = "absent" THEN "single" ELSE p.buzz_pattern,
                        Max(0, Min(10000, IF p.confidence = Absent THEN 8000 ELSE p.confidence)),
                        \* no default is stored; every reader uses .get("reasoning", "")
                        IF p.reasoning = "absent" THEN "" ELSE p.reasoning)]

\* Python's exception classes: JSONDecodeError < ValueError < Exception
IsInstance(err, cls) ==
    CASE cls = "JSONDecodeError" -> err = "JSONDecodeError"
      [] cls = "ValueError"      -> err \in {"JSONDecodeError", "ValueError"}
      [] cls = "Exception"       -> err \in {"JSONDecodeError", "ValueError", "Exception"}
      [] OTHER                   -> FALSE

(***************************************************************************)
(* Fusion.                                                                 *)
(***************************************************************************)
priority_mut(kind) ==
    CASE kind = "RAISE_ENERGY" -> 0
      [] kind = "SPEED_UP"     -> 1
      [] kind = "VISUAL_RESET" -> 2
      [] kind = "VIBE_CHECK"   -> 3
      [] OTHER                 -> 4

priority(kind) ==
    CASE kind = "RAISE_ENERGY" -> 0
      [] kind = "SPEED_UP"     -> 1
      [] kind = "VIBE_CHECK"   -> 2
      [] kind = "VISUAL_RESET" -> 3
      [] OTHER                 -> 4

_merge_results_mut(a, v) ==
    LET weighted == 6 * a.score + 4 * v.score
        audioWins == priority(a.event) <= priority(v.event)
        chosen    == IF audioWins THEN a ELSE v
        override  == a.event = "GOOD" /\ a.confidence >= 7000
        merged10  == IF override THEN Max(weighted, 10 * a.score) ELSE weighted
    IN  Verdict(IF override THEN "GOOD" ELSE chosen.event,
                Round3(merged10, 10),
                IF override THEN a.message ELSE chosen.message,
                IF override THEN FALSE ELSE chosen.buzz,
                IF override THEN "single" ELSE chosen.buzz_pattern,
                Min(a.confidence, v.confidence),
                "Audio: " \o a.reasoning \o " | Visual: " \o v.reasoning)

_merge_results_mut_weights(a, v) ==
    LET weighted == 4 * a.score + 6 * v.score
        audioWins == priority(a.event) <= priority(v.event)
        chosen    == IF audioWins THEN a ELSE v
        override  == a.event = "GOOD" /\ a.confidence > 7000
        merged10  == IF override THEN Max(weighted, 10 * a.score) ELSE weighted
    IN  Verdict(IF override THEN "GOOD" ELSE chosen.event,
                Round3(merged10, 10),
                IF override THEN a.message ELSE chosen.message,
                IF override THEN FALSE ELSE chosen.buzz,
                IF override THEN "single" ELSE chosen.buzz_pattern,
                Min(a.confidence, v.confidence),
                "Audio: " \o a.reasoning \o " | Visual: " \o v.reasoning)

_merge_results(a, v) ==
    LET weighted == 6 * a.score + 4 * v.score          \* ten times the merged score
        audioWins == priority(a.event) <= priority(v.event)
        chosen    == IF audioWins THEN a ELSE v
        override  == a.event = "GOOD" /\ a.confidence > 7000
        merged10  == IF override THEN Max(weighted, 10 * a.score) ELSE weighted
    IN  Verdict(IF override THEN "GOOD" ELSE chosen.event,
                Round3(merged10, 10),
                IF override THEN a.message ELSE chosen.message,
                IF override THEN FALSE ELSE chosen.buzz,
                IF override THEN "single" ELSE chosen.buzz_pattern,
                Min(a.confidence, v.confidence),
                "Audio: " \o a.reasoning \o " | Visual: " \o v.reasoning)

_merge_hook_results_mut(a, v) ==
    LET weighted == 65 * a.score + 35 * v.score
        event == IF a.event = "HOOK_WEAK" \/ v.event = "HOOK_WEAK" THEN "HOOK_WEAK"
                 ELSE IF weighted < 450000 THEN "HOOK_WEAK"
                 ELSE "HOOK_GOOD"
        buzz  == event = "HOOK_WEAK"
    IN  Verdict(event,
                Round3(weighted, 100),
                IF event = "HOOK_GOOD" THEN a.message
                ELSE IF a.event = "HOOK_WEAK" THEN a.message ELSE v.message,
                buzz,
                IF buzz THEN "double" ELSE "single",
                Min(a.confidence, v.confidence),
                "Audio: " \o a.reasoning \o " | Visual: " \o v.reasoning)

\* both verdicts present (the single-verdict and no-verdict branches are in
\* HookFuse below)
_merge_hook_results(a, v) ==
    LET weighted == 65 * a.score + 35 * v.score        \* a hundred times the merged score
        event == IF a.event = "HOOK_WEAK" /\ v.event = "HOOK_WEAK" THEN "HOOK_WEAK"
                 ELSE IF weighted < 450000 THEN "HOOK_WEAK"
                 ELSE "HOOK_GOOD"
        buzz  == event = "HOOK_WEAK"
    IN  Verdict(event,
                Round3(weighted, 100),
                IF event = "HOOK_GOOD" THEN a.message
                ELSE IF a.event = "HOOK_WEAK" THEN a.message ELSE v.message,
                buzz,
                IF buzz THEN "double" ELSE "single",
                Min(a.confidence, v.confidence),
                "Audio: " \o a.reasoning \o " | Visual: " \o v.reasoning)

\* "Force hook event types" in _analyze_hook
ForceHook_mut(v) == v

ForceHook(v) ==
    IF v.event \in {"HOOK_GOOD", "HOOK_WEAK"} THEN v
    ELSE [v EXCEPT !.event = IF v.score >= 4500 THEN "HOOK_GOOD" ELSE "HOOK_WEAK"]

_apply_cooldown_mut(e, s, t) ==
    IF is_on_cooldown(s, e.event, t)
    THEN CoachingEvent(e.event, e.score, "", e.detail, FALSE, "single",
                       e.confidence, e.timestamp, "normal", "")
    ELSE e

_apply_cooldown(e, s, t) ==
    IF is_on_cooldown(s, e.event, t)
    THEN CoachingEvent(e.event, e.score, e.message, e.detail, FALSE, "single",
                       e.confidence, e.timestamp, "normal", "")
    ELSE e

(***************************************************************************)
(* State.                                                                  *)
(***************************************************************************)
VARIABLES
    now,          \* time.time()
    _sessions,    \* routes._sessions: session id -> SessionState object, 0 when absent
    objs,         \* the SessionState objects constructed so far, by object number
    nobjs,        \* how many were constructed
    cyc,          \* the analyze calls that reached an await: where each one stands
    ncyc,         \* how many there are
    live_lock,    \* _live_coach._lock: the cycle holding it, 0 when free
    lock_queue,   \* the cycles waiting for _live_coach._lock, first come first served
    client_wait,  \* per session id, the request its client is blocked on, 0 when none
    last_ret,     \* what the latest finished analyze call gave back
    last_http     \* the answer to the latest GET /session/{id}/summary or /report

vars ==
    <<now, _sessions, objs, nobjs, cyc, ncyc, live_lock, lock_queue, client_wait, last_ret,
      last_http>>

\* the session ids the clients of this run use
SessionIds == DOMAIN _sessions

Cycles == 1..MaxCycles
Objs   == 1..MaxObjs

IdleCycle ==
    [pc |-> "idle", branch |-> "", sid |-> "", sess |-> 0, t_start |-> 0,
     transitioned |-> FALSE,
     a_st |-> "none", a_res |-> NoReply, v_st |-> "none", v_res |-> NoReply, wake |-> 0]

\* last_ret: the cycle (0 for one that never awaited) and its SessionState,
\* the branch it took and how it ended (path), whether it moved the session
\* to normal, the handled exception class, the event returned, the event before
\* the cooldown gate, the two verdicts after validation, what each classifier
\* call gave, and whether the fused kind was on cooldown
NoReturn ==
    [cycle |-> 0, sess |-> 0, branch |-> "", path |-> "", raised |-> FALSE,
     transitioned |-> FALSE, err |-> "", event |-> FALLBACK, fused |-> <<>>,
     audio_raw |-> <<>>, vision_raw |-> <<>>, a_res |-> NoReply, v_res |-> NoReply,
     on_cooldown |-> FALSE]

\* the answer to a lookup: the route, the id asked for, the HTTP status, the
\* number of events the body reports and, for a report, its hook_evaluation
\* (a sequence of length 0 for None) and its problem_zones
NoLookup ==
    [route |-> "", sid |-> "", status |-> 0, events |-> 0, hook |-> <<>>, zones |-> <<>>]

Init ==
    /\ now = Epoch
    /\ _sessions = [sid \in OneClient |-> 0]
    /\ objs = [o \in Objs |-> NewSessionState]
    /\ nobjs = 0
    /\ cyc = [c \in Cycles |-> IdleCycle]
    /\ ncyc = 0
    /\ live_lock = 0
    /\ lock_queue = <<>>
    /\ client_wait = [sid \in OneClient |-> 0]
    /\ last_ret = NoReturn
    /\ last_http = NoLookup

InProgress(c) == cyc[c].pc \in {"hook_gather", "gather", "vision_only", "backoff"}

\* the analyze call of cycle c returns (or raises): the HTTP response goes out
\* and the client, if it still waits for this request, is released
Returns(c, sid, ret) ==
    /\ last_ret' = [ret EXCEPT !.cycle = c]
    /\ client_wait' = [client_wait EXCEPT ![sid] = IF @ = c THEN 0 ELSE @]

Ret(o, path, transitioned, event) ==
    [NoReturn EXCEPT !.sess = o, !.path = path, !.transitioned = transitioned,
                     !.event = event]

RetOf(cy, path, event) ==
    [NoReturn EXCEPT !.sess = cy.sess, !.branch = cy.branch, !.path = path,
                     !.transitioned = cy.transitioned, !.event = event,
                     !.a_res = cy.a_res, !.v_res = cy.v_res]

(***************************************************************************)
(* analyze: which branch a cycle takes once update_phase has run.         *)
(***************************************************************************)
RunsHookNow_flag(prev_phase, s) == prev_phase = "hook" /\ s.hook_evaluated

RunsHookNow_results(prev_phase, s) == s.hook_results = <<>>

RunsHookNow(prev_phase, s) == prev_phase = "hook" /\ ~s.hook_evaluated

\* "session.hook_evaluated = True" and the choice of the buffered inputs
StartHook(s) ==
    [s EXCEPT !.hook_evaluated = TRUE, !.hook_started = @ + 1]

\* the hook-phase branch: keep the latest frame and the latest audio clip
\* longer than 100 bytes
BufferHook(s, image_bytes, audio_bytes) ==
    [s EXCEPT !.hook_buffer_image = image_bytes,
              !.hook_buffer_audio = IF audio_bytes = "long" THEN "long" ELSE @]

(***************************************************************************)
(* POST /analyze, from the arrival of the request to the first await of   *)
(* analyze that suspends.  audio_bytes is "none" (no clip, or an empty    *)
(* one), "short" (at most 100 bytes) or "long" (more than 100 bytes).     *)
(*                                                                         *)
(* A session id belongs to one client (pi/main.py, demo.py), which posts  *)
(* one request at a time and posts again only after the answer or after   *)
(* REQUEST_TIMEOUT seconds without one.                                   *)
(***************************************************************************)
get_or_create_session_mut(sid) == nobjs + 1

get_or_create_session_stale(sid) ==
    IF _sessions[sid] = 0 THEN Max(nobjs, 1) ELSE _sessions[sid]

\* the SessionState registered under sid, constructed now if there is none.
\* Objects not yet constructed are kept as NewSessionState.
get_or_create_session(sid) ==
    IF _sessions[sid] = 0 THEN nobjs + 1 ELSE _sessions[sid]

ClientMaySend(sid) ==
    IF client_wait[sid] = 0 THEN TRUE
    ELSE now - cyc[client_wait[sid]].t_start >= REQUEST_TIMEOUT

analyze_frame(sid, image_bytes, audio_bytes) ==
    /\ ClientMaySend(sid)
    /\ _sessions[sid] = 0 => nobjs < MaxObjs
    /\ LET c      == ncyc + 1
           o      == get_or_create_session(sid)
           s0     == objs[o]
           s1     == IF s0.recording_start_time = 0
                     THEN [s0 EXCEPT !.recording_start_time = now] ELSE s0
           prev_phase == s1.phase
           s2     == update_phase(s1, now)
           moved  == prev_phase = "hook" /\ s2.phase = "normal"
           started == [IdleCycle EXCEPT !.sid = sid, !.sess = o, !.t_start = now,
                                        !.transitioned = moved]
       IN  /\ s2.phase # "hook" => ncyc < MaxCycles
           /\ nobjs' = Max(nobjs, o)
           /\ _sessions' = [_sessions EXCEPT ![sid] = o]
           /\ ncyc' = IF s2.phase = "hook" THEN ncyc ELSE c
           /\ IF s2.phase = "hook"
              THEN \* buffer the inputs, return the placeholder: no await
                   /\ objs' = [objs EXCEPT ![o] = BufferHook(s2, image_bytes, audio_bytes)]
                   /\ last_ret' = [Ret(o, "collecting", moved, Collecting(now))
                                     EXCEPT !.branch = "collecting"]
                   /\ client_wait' = [client_wait EXCEPT ![sid] = 0]
                   /\ UNCHANGED <<cyc, lock_queue>>
              ELSE IF RunsHookNow(prev_phase, s2)
              THEN \* _analyze_hook up to its asyncio.gather
                   LET hook_audio == IF s2.hook_buffer_audio # "none"
                                     THEN s2.hook_buffer_audio ELSE audio_bytes
                   IN  /\ objs' = [objs EXCEPT ![o] = StartHook(s2)]
                       /\ cyc' = [cyc EXCEPT ![c] =
                              [started EXCEPT !.pc = "hook_gather", !.branch = "hook",
                                              !.a_st = IF hook_audio = "long"
                                                       THEN "pending" ELSE "none",
                                              !.v_st = "pending"]]
                       /\ client_wait' = [client_wait EXCEPT ![sid] = c]
                       /\ UNCHANGED <<last_ret, lock_queue>>
              ELSE IF audio_bytes = "long"
              THEN \* audio + vision, up to asyncio.gather
                   /\ objs' = [objs EXCEPT ![o] = s2]
                   /\ cyc' = [cyc EXCEPT ![c] =
                          [started EXCEPT !.pc = "gather", !.branch = "gather",
                                          !.a_st = "lockwait",
                                          !.v_st = "pending"]]
                   /\ lock_queue' = Append(lock_queue, c)
                   /\ client_wait' = [client_wait EXCEPT ![sid] = c]
                   /\ UNCHANGED last_ret
              ELSE \* vision only, up to the await of _analyze_vision_only
                   /\ objs' = [objs EXCEPT ![o] = s2]
                   /\ cyc' = [cyc EXCEPT ![c] =
                          [started EXCEPT !.pc = "vision_only", !.branch = "vision_only",
                                          !.v_st = "pending"]]
                   /\ client_wait' = [client_wait EXCEPT ![sid] = c]
                   /\ UNCHANGED <<last_ret, lock_queue>>
    /\ UNCHANGED <<now, live_lock, last_http>>

(***************************************************************************)
(* LiveCoach.analyze: "async with self._lock".                            *)
(***************************************************************************)
LiveAcquire(c) ==
    /\ cyc[c].a_st = "lockwait"
    /\ live_lock = 0
    /\ lock_queue # <<>> /\ Head(lock_queue) = c
    /\ live_lock' = c
    /\ lock_queue' = Tail(lock_queue)
    /\ cyc' = [cyc EXCEPT ![c].a_st = "pending"]
    /\ UNCHANGED <<now, _sessions, objs, nobjs, ncyc, client_wait, last_ret, last_http>>

(***************************************************************************)
(* The rest of a cycle, run when the last reply it awaits is there.  cy   *)
(* is the cycle with that reply filled in.                                 *)
(***************************************************************************)
\* "isinstance(text, str) and text", then _parse_gemini_response inside
\* try / except Exception: the verdict as a sequence of length 0 or 1
Usable(r) ==
    IF r.t \in {"json", "notjson"} /\ _parse_gemini_response(r).ok
    THEN <<_parse_gemini_response(r).v>> ELSE <<>>

\* the CoachingEvent analyze builds from the fused dict
NormalEvent(raw, t) ==
    CoachingEvent(raw.event, raw.score, raw.message, score_bar(raw.score), raw.buzz,
                  raw.buzz_pattern, raw.confidence, t, "normal", raw.reasoning)

HookEvent_mut(raw, t) ==
    CoachingEvent(raw.event, raw.score, raw.message, score_bar(raw.score), FALSE,
                  "single", raw.confidence, t, "hook", raw.reasoning)

HookEvent(raw, t) ==
    CoachingEvent(raw.event, raw.score, raw.message, score_bar(raw.score), raw.buzz,
                  raw.buzz_pattern, raw.confidence, t, "hook", raw.reasoning)

\* the except clauses of analyze, in order: what becomes of an exception
\* raised inside its try block
AnalyzeExcept_mut(err) ==
    IF IsInstance(err, "JSONDecodeError") THEN "fallback"
    ELSE IF IsInstance(err, "ValueError") THEN "fallback"
    ELSE "propagate"

AnalyzeExcept(err) ==
    IF IsInstance(err, "JSONDecodeError") THEN "fallback"
    ELSE IF IsInstance(err, "ValueError") THEN "fallback"
    ELSE IF IsInstance(err, "Exception") THEN "backoff_or_fallback"
    ELSE "propagate"

\* what the normal-phase fusion makes of the gathered verdicts: no verdict at
\* all is the FALLBACK return, one verdict is used as it is, two are merged
Fuse_mut(audio_raw, vision_raw) ==
    IF audio_raw # <<>> /\ vision_raw # <<>>
    THEN <<_merge_results(audio_raw[1], vision_raw[1])>>
    ELSE <<>>

Fuse_mut_self(audio_raw, vision_raw) ==
    IF audio_raw # <<>> /\ vision_raw # <<>>
    THEN <<_merge_results(audio_raw[1], vision_raw[1])>>
    ELSE IF audio_raw # <<>> THEN <<_merge_results(audio_raw[1], audio_raw[1])>>
    ELSE IF vision_raw # <<>> THEN <<_merge_results(vision_raw[1], vision_raw[1])>>
    ELSE <<>>

Fuse(audio_raw, vision_raw) ==
    IF audio_raw # <<>> /\ vision_raw # <<>>
    THEN <<_merge_results(audio_raw[1], vision_raw[1])>>
    ELSE IF audio_raw # <<>> THEN audio_raw
    ELSE vision_raw

HookFuse(audio_raw, vision_raw) ==
    IF audio_raw # <<>> /\ vision_raw # <<>>
    THEN <<_merge_hook_results(audio_raw[1], vision_raw[1])>>
    ELSE IF audio_raw # <<>> THEN audio_raw
    ELSE vision_raw

Done(cy) ==
    [IdleCycle EXCEPT !.pc = "done", !.branch = cy.branch, !.sid = cy.sid, !.sess = cy.sess]

Emit_mut(c, cy, raw, audio_raw, vision_raw) ==
    LET o     == IF _sessions[cy.sid] # 0 THEN _sessions[cy.sid] ELSE cy.sess
        s     == objs[o]
        event == NormalEvent(raw, now)
        gated == _apply_cooldown(event, s, now)
    IN  /\ objs' = [objs EXCEPT ![o] = record(s, gated, now)]
        /\ cyc' = [cyc EXCEPT ![c] = Done(cy)]
        /\ Returns(c, cy.sid,
                   [RetOf(cy, "normal", gated)
                      EXCEPT !.fused = <<event>>, !.audio_raw = audio_raw,
                             !.vision_raw = vision_raw,
                             !.on_cooldown = is_on_cooldown(s, event.event, now)])

\* event construction, _apply_cooldown, session.record, return
Emit(c, cy, raw, audio_raw, vision_raw) ==
    LET o     == cy.sess
        s     == objs[o]
        event == NormalEvent(raw, now)
        gated == _apply_cooldown(event, s, now)
    IN  /\ objs' = [objs EXCEPT ![o] = record(s, gated, now)]
        /\ cyc' = [cyc EXCEPT ![c] = Done(cy)]
        /\ Returns(c, cy.sid,
                   [RetOf(cy, "normal", gated)
                      EXCEPT !.fused = <<event>>, !.audio_raw = audio_raw,
                             !.vision_raw = vision_raw,
                             !.on_cooldown = is_on_cooldown(s, event.event, now)])

ReturnFallback_mut(c, cy, err) ==
    /\ cyc' = [cyc EXCEPT ![c] = Done(cy)]
    /\ Returns(c, cy.sid, [RetOf(cy, "fallback", FALLBACK) EXCEPT !.err = err])
    /\ objs' = [objs EXCEPT ![cy.sess] = record(objs[cy.sess], FALLBACK, now)]

\* "return FALLBACK"
ReturnFallback(c, cy, err) ==
    /\ cyc' = [cyc EXCEPT ![c] = Done(cy)]
    /\ Returns(c, cy.sid, [RetOf(cy, "fallback", FALLBACK) EXCEPT !.err = err])
    /\ UNCHANGED objs

\* analyze after "await asyncio.gather(audio_task, vision_task)"
GatherResume(c, cy) ==
    LET audio_raw  == Usable(cy.a_res)
        vision_raw == Usable(cy.v_res)
        fused      == Fuse(audio_raw, vision_raw)
    IN  IF fused = <<>>
        THEN ReturnFallback(c, cy, "")
        ELSE Emit(c, cy, fused[1], audio_raw, vision_raw)

\* analyze after "await _analyze_vision_only(...)": nothing is caught before
\* the except clauses of analyze
VisionOnlyResume(c, cy) ==
    LET r      == cy.v_res
        parsed == _parse_gemini_response(r)
        err    == IF r.t = "exc" THEN "Exception" ELSE parsed.err
    IN  IF r.t = "empty"
        THEN ReturnFallback(c, cy, "")
        ELSE IF r.t # "exc" /\ parsed.ok
        THEN Emit(c, cy, parsed.v, <<>>, <<parsed.v>>)
        ELSE IF AnalyzeExcept(err) = "propagate"
        THEN \* the exception leaves analyze
             /\ cyc' = [cyc EXCEPT ![c] = Done(cy)]
             /\ Returns(c, cy.sid,
                        [RetOf(cy, "raised", FALLBACK) EXCEPT !.raised = TRUE, !.err = err])
             /\ UNCHANGED objs
        ELSE IF AnalyzeExcept(err) = "backoff_or_fallback" /\ r.msg = "429"
        THEN \* "await asyncio.sleep(wait)"
             /\ cyc' = [cyc EXCEPT ![c] =
                    [cy EXCEPT !.pc = "backoff",
                               !.wake = now + (IF r.retryDelay > 0 THEN r.retryDelay
                                               ELSE DEFAULT_BACKOFF)]]
             /\ UNCHANGED <<objs, last_ret, client_wait>>
        ELSE ReturnFallback(c, cy, err)

\* _analyze_hook after its gather, then the buffer clearing in analyze
HookResume(c, cy) ==
    LET o     == cy.sess
        s     == objs[o]
        forced(q) == IF q = <<>> THEN <<>> ELSE <<ForceHook(q[1])>>
        audio_raw  == IF cy.a_st = "got" THEN forced(Usable(cy.a_res)) ELSE <<>>
        vision_raw == forced(Usable(cy.v_res))
        fused == HookFuse(audio_raw, vision_raw)
        event == HookEvent(fused[1], now)
        cleared(st) == [st EXCEPT !.hook_buffer_image = "", !.hook_buffer_audio = "none"]
    IN  /\ cyc' = [cyc EXCEPT ![c] = Done(cy)]
        /\ IF fused = <<>>
           THEN /\ objs' = [objs EXCEPT ![o] = cleared(s)]
                /\ Returns(c, cy.sid,
                           RetOf(cy, "hook_fallback", HOOK_FALLBACK))
           ELSE /\ objs' = [objs EXCEPT ![o] =
                      cleared(record([s EXCEPT !.hook_results = Append(@, event)], event, now))]
                /\ Returns(c, cy.sid,
                           [RetOf(cy, "hook", event)
                              EXCEPT !.fused = <<event>>, !.audio_raw = audio_raw,
                                     !.vision_raw = vision_raw])

\* A reply (or failure) of one pending classifier call reaches the cycle.
\* The cycle goes on when every call it awaits has ended.
Deliver(c, cy) ==
    IF cy.v_st = "got" /\ cy.a_st \in {"none", "got"}
    THEN CASE cy.pc = "hook_gather" -> HookResume(c, cy)
           [] cy.pc = "gather"      -> GatherResume(c, cy)
           [] cy.pc = "vision_only" -> VisionOnlyResume(c, cy)
    ELSE /\ cyc' = [cyc EXCEPT ![c] = cy]
         /\ UNCHANGED <<objs, last_ret, client_wait>>

\* the Live call leaves "async with self._lock" whether it returns or raises
AudioReply(c, r) ==
    /\ cyc[c].a_st = "pending"
    /\ r \in (IF cyc[c].pc = "hook_gather" THEN HookAudioReplies ELSE AudioReplies)
    /\ live_lock' = IF live_lock = c THEN 0 ELSE live_lock
    /\ Deliver(c, [cyc[c] EXCEPT !.a_st = "got", !.a_res = r])
    /\ UNCHANGED <<now, _sessions, nobjs, ncyc, lock_queue, last_http>>

VisionReply(c, r) ==
    /\ cyc[c].v_st = "pending"
    /\ r \in (CASE cyc[c].pc = "hook_gather" -> HookVisionReplies
                [] cyc[c].pc = "gather"      -> VisionReplies
                [] OTHER                     -> VisionOnlyReplies)
    /\ Deliver(c, [cyc[c] EXCEPT !.v_st = "got", !.v_res = r])
    /\ UNCHANGED <<now, _sessions, nobjs, ncyc, live_lock, lock_queue, last_http>>

\* "await asyncio.sleep(wait)" is over
BackoffWake(c) ==
    /\ cyc[c].pc = "backoff"
    /\ now >= cyc[c].wake
    /\ ReturnFallback(c, cyc[c], "Exception")
    /\ UNCHANGED <<now, _sessions, nobjs, ncyc, live_lock, lock_queue, last_http>>

(***************************************************************************)
(* DELETE /session/{session_id}.  Cycles in flight keep their reference   *)
(* to the SessionState object.                                            *)
(***************************************************************************)
reset_session(sid) ==
    /\ _sessions[sid] # 0
    /\ _sessions' = [_sessions EXCEPT ![sid] = 0]
    /\ UNCHANGED <<now, objs, nobjs, cyc, ncyc, live_lock, lock_queue, client_wait, last_ret,
                   last_http>>

\* Wall-clock time passes.  The clock is read from the first request on, and
\* requests and replies are observed at instants ClockStep seconds apart.
Tick ==
    /\ nobjs > 0
    /\ now + ClockStep <= Epoch + MaxTime
    /\ now' = now + ClockStep
    /\ UNCHANGED <<_sessions, objs, nobjs, cyc, ncyc, live_lock, lock_queue, client_wait,
                   last_ret, last_http>>

Next ==
    \/ \E sid \in SessionIds, img \in Images, ab \in {"none", "short", "long"} :
          analyze_frame(sid, img, ab)
    \/ \E c \in Cycles : LiveAcquire(c)
    \/ \E c \in Cycles, r \in AudioReplies \cup HookAudioReplies : AudioReply(c, r)
    \/ \E c \in Cycles, r \in VisionReplies \cup HookVisionReplies \cup VisionOnlyReplies :
          VisionReply(c, r)
    \/ \E c \in Cycles : BackoffWake(c)
    \/ \E sid \in SessionIds : reset_session(sid)
    \/ Tick

Spec == Init /\ [][Next]_vars

(***************************************************************************)
(* Scheduling.  Time passes, and the event loop runs every coroutine that *)
(* is ready: one whose lock is free, one whose sleep is over.  Nothing    *)
(* makes a classifier answer and nothing makes a client send.             *)
(***************************************************************************)
FairSpec ==
    /\ Spec
    /\ WF_vars(Tick)
    /\ \A c \in Cycles : WF_vars(LiveAcquire(c)) /\ WF_vars(BackoffWake(c))

(***************************************************************************)
(* A session past its hook: the first request came at Epoch and got the   *)
(* placeholder, the request HOOK_DURATION seconds later ran the hook      *)
(* evaluation, whose vision call gave an empty text (no audio was sent),  *)
(* so HOOK_FALLBACK was returned and nothing was recorded.  The table of  *)
(* cycles lists the calls made from here on.                              *)
(***************************************************************************)
WarmState ==
    /\ now = Epoch + HOOK_DURATION
    /\ _sessions = [sid \in OneClient |-> 1]
    /\ objs = [o \in Objs |->
                 IF o = 1
                 THEN [NewSessionState EXCEPT !.phase = "normal",
                                              !.recording_start_time = Epoch,
                                              !.hook_evaluated = TRUE,
                                              !.hook_buffer_image = "",
                                              !.hook_started = 1]
                 ELSE NewSessionState]
    /\ nobjs = 1
    /\ cyc = [c \in Cycles |-> IdleCycle]
    /\ ncyc = 0
    /\ live_lock = 0
    /\ lock_queue = <<>>
    /\ client_wait = [sid \in OneClient |-> 0]
    /\ last_http = NoLookup

WarmInit ==
    /\ WarmState
    /\ last_ret = [NoReturn EXCEPT !.sess = 1, !.branch = "hook", !.path = "hook_fallback",
                                   !.transitioned = TRUE, !.event = HOOK_FALLBACK,
                                   !.v_res = EmptyText]

WarmSpec == WarmInit /\ [][Next]_vars

(***************************************************************************)
(* Two clients, each with a session of its own past its hook (both hook   *)
(* evaluations ended as the one of WarmState did).                        *)
(***************************************************************************)
PairInit ==
    /\ now = Epoch + HOOK_DURATION
    /\ _sessions = [sid \in TwoClients |-> IF sid = "s1" THEN 1 ELSE 2]
    /\ objs = [o \in Objs |->
                 IF o <= 2
                 THEN [NewSessionState EXCEPT !.phase = "normal",
                                              !.recording_start_time = Epoch,
                                              !.hook_evaluated = TRUE,
                                              !.hook_buffer_image = "",
                                              !.hook_started = 1]
                 ELSE NewSessionState]
    /\ nobjs = 2
    /\ cyc = [c \in Cycles |-> IdleCycle]
    /\ ncyc = 0
    /\ live_lock = 0
    /\ lock_queue = <<>>
    /\ client_wait = [sid \in TwoClients |-> 0]
    /\ last_ret = [NoReturn EXCEPT !.sess = 2, !.branch = "hook", !.path = "hook_fallback",
                                   !.transitioned = TRUE, !.event = HOOK_FALLBACK,
                                   !.v_res = EmptyText]
    /\ last_http = NoLookup

PairSpec == PairInit /\ [][Next]_vars

(***************************************************************************)
(* A classifier API that is over its quota: any pending call, of any      *)
(* path, may be rejected with 429 RESOURCE_EXHAUSTED.                     *)
(***************************************************************************)
AudioRateLimited(c) ==
    /\ cyc[c].a_st = "pending"
    /\ live_lock' = IF live_lock = c THEN 0 ELSE live_lock
    /\ Deliver(c, [cyc[c] EXCEPT !.a_st = "got", !.a_res = ExcRate])
    /\ UNCHANGED <<now, _sessions, nobjs, ncyc, lock_queue, last_http>>

VisionRateLimited(c) ==
    /\ cyc[c].v_st = "pending"
    /\ Deliver(c, [cyc[c] EXCEPT !.v_st = "got", !.v_res = ExcRate])
    /\ UNCHANGED <<now, _sessions, nobjs, ncyc, live_lock, lock_queue, last_http>>

QuotaNext ==
    \/ Next
    \/ \E c \in Cycles : AudioRateLimited(c)
    \/ \E c \in Cycles : VisionRateLimited(c)

QuotaSpec == Init /\ [][QuotaNext]_vars

(***************************************************************************)
(* A classifier that answers with a buzz pattern outside the four the     *)
(* prompt lists: any pending vision call may get such a reply.            *)
(***************************************************************************)
SaysPulse == Text("json", Json("VIBE_CHECK", 4000, "SMILE MORE", "true", "pulse", 6000, "blank face"))

VisionUnlistedPattern(c) ==
    /\ cyc[c].v_st = "pending"
    /\ Deliver(c, [cyc[c] EXCEPT !.v_st = "got", !.v_res = SaysPulse])
    /\ UNCHANGED <<now, _sessions, nobjs, ncyc, live_lock, lock_queue, last_http>>

PatternNext ==
    \/ Next
    \/ \E c \in Cycles : VisionUnlistedPattern(c)

PatternSpec == WarmInit /\ [][PatternNext]_vars

(***************************************************************************)
(* GET /session/{id}/summary and GET /session/{id}/report: the lookup and *)
(* the size of the history they answer with.  Neither awaits anything.    *)
(***************************************************************************)
Lookup(route, sid) ==
    IF _sessions[sid] = 0
    THEN [NoLookup EXCEPT !.route = route, !.sid = sid, !.status = 404]
    ELSE [NoLookup EXCEPT !.route = route, !.sid = sid, !.status = 200,
                          !.events = Len(objs[_sessions[sid]].history)]

LOW_THRESHOLD == 6000

RECURSIVE SumScores(_)
SumScores(h) == IF h = <<>> THEN 0 ELSE h[1].score + SumScores(Tail(h))

Zone_mut(h, first, last) ==
    [start_frame |-> first,
     end_frame   |-> last,
     length      |-> last - first + 1,
     avg_score   |-> Round3(SumScores(SubSeq(h, first, last)), last - first + 2),
     events      |-> [j \in 1..(last - first + 1) |-> h[first + j - 1].event]]

\* one entry of problem_zones: the events first..last of the history
Zone(h, first, last) ==
    [start_frame |-> first,
     end_frame   |-> last,
     length      |-> last - first + 1,
     avg_score   |-> Round3(SumScores(SubSeq(h, first, last)), last - first + 1),
     events      |-> [j \in 1..(last - first + 1) |-> h[first + j - 1].event]]

\* the loop over the history: i is the position looked at, zone_start the
\* position where the open run of low scores began (0 for None), zones the
\* list built so far; after the loop, the run that extends to the end
RECURSIVE ProblemZonesFrom(_, _, _, _)
ProblemZonesFrom(h, i, zone_start, zones) ==
    IF i > Len(h)
    THEN IF zone_start # 0 /\ (Len(h) + 1 - zone_start) >= 2
         THEN Append(zones, Zone(h, zone_start, Len(h)))
         ELSE zones
    ELSE IF h[i].score < LOW_THRESHOLD
    THEN ProblemZonesFrom(h, i + 1, IF zone_start = 0 THEN i ELSE zone_start, zones)
    ELSE ProblemZonesFrom(h, i + 1, 0,
                          IF zone_start # 0 /\ (i - zone_start) >= 2
                          THEN Append(zones, Zone(h, zone_start, i - 1))
                          ELSE zones)

ProblemZones_mut(h) == ProblemZonesFrom(h, 2, 0, <<>>)

ProblemZones(h) == ProblemZonesFrom(h, 1, 0, <<>>)

HookEvaluationOf_mut(hook_events) ==
    <<[verdict   |-> IF \E i \in 1..Len(hook_events) : hook_events[i].event = "HOOK_WEAK"
                     THEN "WEAK" ELSE "STRONG",
       avg_score |-> IF hook_events = <<>> THEN 0
                     ELSE Round3(SumScores(hook_events), Len(hook_events)),
       evaluations |-> Len(hook_events)]>>

\* hook_evaluation: None when hook_results is empty
HookEvaluationOf(hook_events) ==
    IF hook_events = <<>> THEN <<>>
    ELSE <<[verdict   |-> IF \E i \in 1..Len(hook_events) : hook_events[i].event = "HOOK_WEAK"
                          THEN "WEAK" ELSE "STRONG",
            avg_score |-> Round3(SumScores(hook_events), Len(hook_events)),
            evaluations |-> Len(hook_events)]>>

\* the body of the report: for an empty history only the event count 0
Report(sid) ==
    LET session == objs[_sessions[sid]]
    IN  IF _sessions[sid] = 0 \/ session.history = <<>>
        THEN Lookup("report", sid)
        ELSE [Lookup("report", sid) EXCEPT !.hook = HookEvaluationOf(session.hook_results),
                                           !.zones = ProblemZones(session.history)]

session_summary_mut(sid) ==
    /\ _sessions[sid] = 0 => nobjs < MaxObjs
    /\ last_http' = [NoLookup EXCEPT !.route = "summary", !.sid = sid, !.status = 200,
                                     !.events = Len(objs[get_or_create_session(sid)].history)]
    /\ _sessions' = [_sessions EXCEPT ![sid] = get_or_create_session(sid)]
    /\ nobjs' = Max(nobjs, get_or_create_session(sid))
    /\ UNCHANGED <<now, objs, cyc, ncyc, live_lock, lock_queue, client_wait, last_ret>>

session_summary(sid) ==
    /\ last_http' = Lookup("summary", sid)
    /\ UNCHANGED <<now, _sessions, objs, nobjs, cyc, ncyc, live_lock, lock_queue,
                   client_wait, last_ret>>

session_report(sid) ==
    /\ last_http' = Report(sid)
    /\ UNCHANGED <<now, _sessions, objs, nobjs, cyc, ncyc, live_lock, lock_queue,
                   client_wait, last_ret>>

RoutesNext ==
    \/ Next
    \/ \E sid \in SessionIds : session_summary(sid)
    \/ \E sid \in SessionIds : session_report(sid)

RoutesSpec == Init /\ [][RoutesNext]_vars

(***************************************************************************)
(* The normal-phase fusion on its own: the step of analyze from the two   *)
(* validated verdicts (each present or not) to the CoachingEvent it       *)
(* builds, over verdicts of the five normal-phase kinds.  The two sides   *)
(* differ in message, buzz pattern and reasoning, so that the origin of a *)
(* fused field shows.                                                      *)
(***************************************************************************)
NormalKinds == {"GOOD", "SPEED_UP", "VIBE_CHECK", "RAISE_ENERGY", "VISUAL_RESET"}

AudioVerdicts ==
    {Verdict(k, sc, "A-" \o k, bz, "long", cf, "heard") :
        k \in NormalKinds, sc \in {3000, 9004}, bz \in BOOLEAN, cf \in {7000, 7001, 9000}}

VisionVerdicts ==
    {Verdict(k, sc, "V-" \o k, bz, "triple", cf, "seen") :
        k \in NormalKinds, sc \in {2001, 8000, 9004}, bz \in BOOLEAN, cf \in {5000, 9500}}

\* a cycle of the session has gathered its two verdicts, each present or not
FusionInit ==
    /\ WarmState
    /\ \E a \in {<<>>} \cup {<<x>> : x \in AudioVerdicts},
          v \in {<<>>} \cup {<<x>> : x \in VisionVerdicts} :
          last_ret = [NoReturn EXCEPT !.sess = 1, !.branch = "gather",
                                      !.audio_raw = a, !.vision_raw = v]

FuseStep ==
    LET fused == Fuse(last_ret.audio_raw, last_ret.vision_raw)
    IN  /\ last_ret.path = ""
        /\ last_ret' =
               [last_ret EXCEPT
                   !.path = IF fused = <<>> THEN "fallback" ELSE "normal",
                   !.fused = IF fused = <<>> THEN <<>> ELSE <<NormalEvent(fused[1], now)>>,
                   !.event = IF fused = <<>> THEN FALLBACK ELSE NormalEvent(fused[1], now)]
        /\ UNCHANGED <<now, _sessions, objs, nobjs, cyc, ncyc, live_lock, lock_queue,
                       client_wait, last_http>>

FusionSpec == FusionInit /\ [][FuseStep]_vars

(***************************************************************************)
(* SessionState.record on its own: any sequence of record() calls, with   *)
(* events of every kind, on the SessionState of a session past its hook.  *)
(***************************************************************************)
RecordEvents ==
    {CoachingEvent(k, 5000, "MSG", score_bar(5000), FALSE, "single", 10000, now, "normal", "") :
        k \in EventTypes}

RecordStep(o, e) ==
    /\ Len(objs[o].history) < MaxHistory
    /\ objs' = [objs EXCEPT ![o] = record(objs[o], e, now)]
    /\ UNCHANGED <<now, _sessions, nobjs, cyc, ncyc, live_lock, lock_queue, client_wait,
                   last_ret, last_http>>

RecordNext == \E e \in RecordEvents : RecordStep(1, e)

RecordSpec == WarmInit /\ [][RecordNext]_vars

(***************************************************************************)
(* The hook fusion on its own: the step of _analyze_hook from the two     *)
(* gathered replies to the event it builds.  The replies carry hook kinds *)
(* and kinds the hook prompt does not ask for, and scores on both sides   *)
(* of the 0.45 threshold.                                                  *)
(***************************************************************************)
HookAudioTexts ==
    {Text("json", Json(k, sc, "A-" \o k, "false", "long", 7000, "heard")) :
        k \in {"HOOK_GOOD", "HOOK_WEAK", "RAISE_ENERGY"}, sc \in {3000, 3600, 4499, 4500}}

HookVisionTexts ==
    {Text("json", Json(k, sc, "V-" \o k, "true", "triple", 9000, "seen")) :
        k \in {"HOOK_GOOD", "HOOK_WEAK", "GOOD"}, sc \in {2000, 4500, 7600}}

\* the hook evaluation of the session has gathered its replies
HookFusionInit ==
    /\ WarmState
    /\ \E a \in {NoReply, ExcGeneric} \cup HookAudioTexts,
          v \in {EmptyText} \cup HookVisionTexts :
          last_ret = [NoReturn EXCEPT !.sess = 1, !.branch = "hook", !.transitioned = TRUE,
                                      !.a_res = a, !.v_res = v]

HookFuseStep ==
    LET forced(q) == IF q = <<>> THEN <<>> ELSE <<ForceHook(q[1])>>
        audio_raw  == forced(Usable(last_ret.a_res))
        vision_raw == forced(Usable(last_ret.v_res))
        fused      == HookFuse(audio_raw, vision_raw)
    IN  /\ last_ret.path = ""
        /\ last_ret' =
               [last_ret EXCEPT
                   !.path = IF fused = <<>> THEN "hook_fallback" ELSE "hook",
                   !.audio_raw = audio_raw,
                   !.vision_raw = vision_raw,
                   !.fused = IF fused = <<>> THEN <<>> ELSE <<HookEvent(fused[1], now)>>,
                   !.event = IF fused = <<>> THEN HOOK_FALLBACK ELSE HookEvent(fused[1], now)]
        /\ UNCHANGED <<now, _sessions, objs, nobjs, cyc, ncyc, live_lock, lock_queue,
                       client_wait, last_http>>

HookFusionSpec == HookFusionInit /\ [][HookFuseStep]_vars

(***************************************************************************)
(* The report on its own: GET /session/{id}/report on a session whose     *)
(* history is any timeline of up to MaxTimeline events with scores on     *)
(* both sides of LOW_THRESHOLD, after the hook event when the hook        *)
(* evaluation recorded one, or is the ten-event timeline of Timeline10.   *)
(***************************************************************************)
TimelineScores == {3000, 5999, 6000}

Timeline10 == <<9000, 9000, 5000, 4000, 3000, 9000, 2000, 1000, 9000, 9000>>

\* a recorded normal-phase event with the given score
TimelineEvent(sc) ==
    CoachingEvent(IF sc < 7000 THEN "VIBE_CHECK" ELSE "GOOD", sc, "MSG", score_bar(sc),
                  FALSE, "single", 8000, Epoch + HOOK_DURATION, "normal", "")

Timelines ==
    {[i \in 1..Len(t) |-> TimelineEvent(t[i])] :
        t \in {Timeline10} \cup UNION {[1..n -> TimelineScores] : n \in 0..MaxTimeline}}

\* what the hook evaluation left in hook_results: nothing, or its one event
HookOutcomes ==
    {<<>>} \cup
    {<<CoachingEvent(k, sc, "HOOK", score_bar(sc), k = "HOOK_WEAK",
                     IF k = "HOOK_WEAK" THEN "double" ELSE "single", 8000,
                     Epoch + HOOK_DURATION, "hook", "")>> :
        k \in {"HOOK_GOOD", "HOOK_WEAK"}, sc \in {3000, 9004}}

ReportInit ==
    /\ now = Epoch + HOOK_DURATION
    /\ _sessions = [sid \in OneClient |-> 1]
    /\ \E hk \in HookOutcomes, tl \in Timelines :
          objs = [o \in Objs |->
                    IF o = 1
                    THEN [NewSessionState EXCEPT !.phase = "normal",
                                                 !.recording_start_time = Epoch,
                                                 !.hook_evaluated = TRUE,
                                                 !.hook_started = 1,
                                                 !.hook_results = hk,
                                                 !.history = hk \o tl]
                    ELSE NewSessionState]
    /\ nobjs = 1
    /\ cyc = [c \in Cycles |-> IdleCycle]
    /\ ncyc = 0
    /\ live_lock = 0
    /\ lock_queue = <<>>
    /\ client_wait = [sid \in OneClient |-> 0]
    /\ last_ret = NoReturn
    /\ last_http = NoLookup

ReportNext == \E sid \in SessionIds : session_report(sid)

ReportSpec == ReportInit /\ [][ReportNext]_vars

(***************************************************************************)
(* The validator on its own: _parse_gemini_response on a reply text that  *)
(* is not JSON, or is a JSON object in which each key may be absent, the  *)
(* kind may be unknown, the numbers may lie outside [0,1] and the message  *)
(* may be longer than 14 characters.                                       *)
(***************************************************************************)
ParseTexts ==
    {NotJson} \cup
    {Text("json", Json(e, sc, msg, bz, bp, cf, "r")) :
        e \in EventTypes \cup {"absent", "DANCE"},
        sc \in {Absent, 0 - 500, 5000, 12000},
        msg \in {"absent", "NICE", "KEEP YOUR ENERGY UP"},
        bz \in {"absent", "true"},
        bp \in {"absent", "long"},
        cf \in {Absent, 15000}}

ParseInit ==
    /\ WarmState
    /\ \E r \in ParseTexts : last_ret = [NoReturn EXCEPT !.sess = 1, !.v_res = r]

\* the call, with its verdict (a sequence of length 0 when it raised) and
\* the class of the exception it raised
ParseStep ==
    LET parsed == _parse_gemini_response(last_ret.v_res)
    IN  /\ last_ret.path = ""
        /\ last_ret' = [last_ret EXCEPT !.path = "parsed",
                                        !.err = parsed.err,
                                        !.vision_raw = IF parsed.ok THEN <<parsed.v>> ELSE <<>>]
        /\ UNCHANGED <<now, _sessions, objs, nobjs, cyc, ncyc, live_lock, lock_queue,
                       client_wait, last_http>>

ParseSpec == ParseInit /\ [][ParseStep]_vars

(***************************************************************************)
(* The words-per-minute estimate of the two clients: _estimate_wpm of the *)
(* device (pi/audio.py) and the same loop inside MicCapture.get_metrics   *)
(* of the demo.  Amplitudes are thousandths, windows tenths of a second.  *)
(***************************************************************************)
BURST_ON_THRESHOLD == 100
BURST_OFF_THRESHOLD == 70
SAMPLE_WINDOW_SEC == 20
BURST_ON == 40
BURST_OFF == 25
AUDIO_WINDOW_SEC == 15
MAX_WPM == 350

\* the longest window of arbitrary samples, the most bursts of an
\* alternating window, and the number of times one window is estimated
MaxSamples == 4
MaxBursts == 14
MaxRuns == 2

\* the loop over the samples: i is the position looked at
RECURSIVE BurstScan(_, _, _, _, _, _)
BurstScan(samples, i, in_burst, burst_count, on, off) ==
    IF i > Len(samples) THEN burst_count
    ELSE IF ~in_burst /\ samples[i] >= on
    THEN BurstScan(samples, i + 1, TRUE, burst_count + 1, on, off)
    ELSE IF in_burst /\ samples[i] < off
    THEN BurstScan(samples, i + 1, FALSE, burst_count, on, off)
    ELSE BurstScan(samples, i + 1, in_burst, burst_count, on, off)

\* int(burst_count / window_sec / 1.5 * 60), clamped
Wpm(burst_count, window_sec) ==
    IF burst_count = 0 THEN 0
    ELSE Max(0, Min(MAX_WPM, (burst_count * 10 * 2 * 60) \div (window_sec * 3)))

_estimate_wpm_mut(samples, window_sec) ==
    IF window_sec < 10 THEN 0
    ELSE Wpm(BurstScan(samples, 1, FALSE, 0, BURST_ON_THRESHOLD, BURST_ON_THRESHOLD),
             window_sec)

_estimate_wpm(samples, window_sec) ==
    IF window_sec < 10 THEN 0
    ELSE Wpm(BurstScan(samples, 1, FALSE, 0, BURST_ON_THRESHOLD, BURST_OFF_THRESHOLD),
             window_sec)

\* the estimated_wpm entry of get_metrics (no test of the window length)
get_metrics(samples, window_sec) ==
    Wpm(BurstScan(samples, 1, FALSE, 0, BURST_ON, BURST_OFF), window_sec)

\* the amplitudes around the two thresholds
Levels(on, off) == {off - 1, off, on - 1, on}

\* k bursts: a sample at the on threshold, then one below the off threshold
RECURSIVE Alternating(_, _, _)
Alternating(k, on, off) ==
    IF k = 0 THEN <<>> ELSE <<on, off - 1>> \o Alternating(k - 1, on, off)

SampleWindows(on, off) ==
    UNION {[1..m -> Levels(on, off)] : m \in 0..MaxSamples}
        \cup {Alternating(k, on, off) : k \in 1..MaxBursts}

\* a window of samples in front of one of the two programs; the device's
\* function is also given windows of half a second and of one second
WpmInit ==
    /\ WarmState
    /\ \/ \E s \in SampleWindows(BURST_ON_THRESHOLD, BURST_OFF_THRESHOLD),
             w \in {5, 10, SAMPLE_WINDOW_SEC} :
             last_ret = [program |-> "pi", samples |-> s, window_sec |-> w, runs |-> 0,
                         estimated_wpm |-> 0, first_wpm |-> 0]
       \/ \E s \in SampleWindows(BURST_ON, BURST_OFF) :
             last_ret = [program |-> "demo", samples |-> s, window_sec |-> AUDIO_WINDOW_SEC,
                         runs |-> 0, estimated_wpm |-> 0, first_wpm |-> 0]

\* one run of the estimate over the window
EstimateStep ==
    LET wpm == IF last_ret.program = "pi"
               THEN _estimate_wpm(last_ret.samples, last_ret.window_sec)
               ELSE get_metrics(last_ret.samples, last_ret.window_sec)
    IN  /\ last_ret.runs < MaxRuns
        /\ last_ret' = [last_ret EXCEPT !.runs = @ + 1,
                                        !.estimated_wpm = wpm,
                                        !.first_wpm = IF last_ret.runs = 0 THEN wpm ELSE @]
        /\ UNCHANGED <<now, _sessions, objs, nobjs, cyc, ncyc, live_lock, lock_queue,
                       client_wait, last_http>>

WpmSpec == WpmInit /\ [][EstimateStep]_vars

(***************************************************************************)
(* SessionState.recent_score_trend, applied to histories whose scores lie *)
(* 0.08 and 0.0801 apart.                                                  *)
(***************************************************************************)
TREND_DELTA == 800

recent_score_trend_mut(session, n) ==
    IF Len(session.history) < n THEN "stable"
    ELSE LET recent == SubSeq(session.history, Len(session.history) - n + 1,
                              Len(session.history))
             delta  == recent[Len(recent)].score - recent[1].score
         IN  IF delta >= TREND_DELTA THEN "rising"
             ELSE IF delta <= -TREND_DELTA THEN "falling"
             ELSE "stable"

\* recent = the scores of history[-n:], delta = recent[-1] - recent[0]
recent_score_trend(session, n) ==
    IF Len(session.history) < n THEN "stable"
    ELSE LET recent == SubSeq(session.history, Len(session.history) - n + 1,
                              Len(session.history))
             delta  == recent[Len(recent)].score - recent[1].score
         IN  IF delta > TREND_DELTA THEN "rising"
             ELSE IF delta < -TREND_DELTA THEN "falling"
             ELSE "stable"

MaxTrend == 4
TrendScores == {4199, 4200, 5000, 5800, 5801}
TrendWindows == 1..3

TrendInit ==
    /\ now = Epoch + HOOK_DURATION
    /\ _sessions = [sid \in OneClient |-> 1]
    /\ \E m \in 0..MaxTrend : \E t \in [1..m -> TrendScores] :
          objs = [o \in Objs |->
                    IF o = 1
                    THEN [NewSessionState EXCEPT !.phase = "normal",
                                                 !.recording_start_time = Epoch,
                                                 !.hook_evaluated = TRUE,
                                                 !.hook_started = 1,
                                                 !.history = [i \in 1..m |-> TimelineEvent(t[i])]]
                    ELSE NewSessionState]
    /\ nobjs = 1
    /\ cyc = [c \in Cycles |-> IdleCycle]
    /\ ncyc = 0
    /\ live_lock = 0
    /\ lock_queue = <<>>
    /\ client_wait = [sid \in OneClient |-> 0]
    /\ last_http = NoLookup
    /\ last_ret = [n |-> 0, trend |-> ""]

\* one call session.recent_score_trend(n)
TrendStep(n) ==
    /\ last_ret.n = 0
    /\ last_ret' = [n |-> n, trend |-> recent_score_trend(objs[1], n)]
    /\ UNCHANGED <<now, _sessions, objs, nobjs, cyc, ncyc, live_lock, lock_queue,
                   client_wait, last_http>>

TrendNext == \E n \in TrendWindows : TrendStep(n)

TrendSpec == TrendInit /\ [][TrendNext]_vars

(***************************************************************************)
(* A classifier that answers GOOD with buzz true: any pending vision call *)
(* may get such a reply.                                                   *)
(***************************************************************************)
SaysGoodBuzz == Text("json", Json("GOOD", 9000, "LOCKED IN", "true", "single", 6000, "lively"))

VisionGoodBuzz(c) ==
    /\ cyc[c].v_st = "pending"
    /\ Deliver(c, [cyc[c] EXCEPT !.v_st = "got", !.v_res = SaysGoodBuzz])
    /\ UNCHANGED <<now, _sessions, nobjs, ncyc, live_lock, lock_queue, last_http>>

LoudGoodNext ==
    \/ Next
    \/ \E c \in Cycles : VisionGoodBuzz(c)

LoudGoodSpec == WarmInit /\ [][LoudGoodNext]_vars

(***************************************************************************)
(* A session that has just recorded its first alert: the state after one  *)
(* cycle of a warm session whose audio classifier answered RAISE_ENERGY   *)
(* and whose vision call failed.                                           *)
(***************************************************************************)
FirstAlert == NormalEvent(_parse_gemini_response(SaysEnergy).v, Epoch + HOOK_DURATION)

StreamInit ==
    /\ now = Epoch + HOOK_DURATION
    /\ _sessions = [sid \in OneClient |-> 1]
    /\ objs = [o \in Objs |->
                 IF o = 1
                 THEN record([NewSessionState EXCEPT !.phase = "normal",
                                                     !.recording_start_time = Epoch,
                                                     !.hook_evaluated = TRUE,
                                                     !.hook_buffer_image = "",
                                                     !.hook_started = 1],
                             FirstAlert, Epoch + HOOK_DURATION)
                 ELSE NewSessionState]
    /\ nobjs = 1
    /\ cyc = [c \in Cycles |-> IdleCycle]
    /\ ncyc = 0
    /\ live_lock = 0
    /\ lock_queue = <<>>
    /\ client_wait = [sid \in OneClient |-> 0]
    /\ last_http = NoLookup
    /\ last_ret = [NoReturn EXCEPT !.sess = 1, !.branch = "gather", !.path = "normal",
                                   !.event = FirstAlert, !.fused = <<FirstAlert>>,
                                   !.a_res = SaysEnergy, !.v_res = ExcGeneric,
                                   !.audio_raw = <<_parse_gemini_response(SaysEnergy).v>>]

StreamSpec == StreamInit /\ [][Next]_vars

(***************************************************************************)
(* Properties.                                                             *)
(***************************************************************************)
\* the SessionState objects constructed so far
Live == 1..nobjs

\* a reply the response validator accepts
ValidReply(r) == r.t = "json" /\ _parse_gemini_response(r).ok

VerdictOf(r) == _parse_gemini_response(r).v

\* an object that DELETE /session removed from the registry
Deleted(o) == o \in Live /\ \A sid \in SessionIds : _sessions[sid] # o

\* C1: a session's phase starts as hook, and once it is normal it stays
\* normal through every step of every cycle, overlapping cycles included: the
\* only change it ever makes is the one from hook to normal.
C1_PhaseOnlyAdvances ==
    [][/\ nobjs' > nobjs => objs'[nobjs'].phase = "hook"
       /\ \A o \in Objs : objs[o].phase = "normal" => objs'[o].phase = "normal"]_vars

\* two events recorded on a session that is past its transition: the hook
\* event and a normal-phase event
C1_Witness ==
    \E o \in Live : objs[o].phase = "normal" /\ Len(objs[o].history) >= 2

\* C2: _analyze_hook is started at most once on any SessionState object.
C2_HookStartedAtMostOnce ==
    \A o \in Objs : objs[o].hook_started <= 1

\* a second cycle of the same session is in progress while the hook
\* classifier calls of the first are still in flight
C2_Witness ==
    \E c1, c2 \in Cycles :
        /\ c1 # c2
        /\ cyc[c1].pc = "hook_gather"
        /\ InProgress(c2)
        /\ cyc[c2].sess = cyc[c1].sess
        /\ objs[cyc[c1].sess].hook_started = 1

\* C3: the cycle that moves a session from hook to normal runs the hook
\* evaluation and returns a hook event; a session in phase normal has
\* hook_evaluated set; no normal-phase cycle runs on a session whose hook
\* evaluation was never started.
C3_HookRunsAtTransition ==
    /\ \A o \in Objs : objs[o].phase = "normal" => objs[o].hook_evaluated
    /\ \A c \in Cycles :
          cyc[c].branch \in {"gather", "vision_only"} => objs[cyc[c].sess].hook_started >= 1
    /\ \A c \in Cycles :
          (InProgress(c) /\ cyc[c].transitioned) => cyc[c].branch = "hook"
    /\ last_ret.transitioned =>
          /\ last_ret.branch = "hook"
          /\ last_ret.event.phase = "hook"
          /\ last_ret.event.event \in {"HOOK_GOOD", "HOOK_WEAK"}

\* the transition cycle has returned a fused hook event
C3_Witness ==
    /\ last_ret.transitioned
    /\ last_ret.path = "hook"
    /\ objs[last_ret.sess].hook_results # <<>>

\* C4: no two analyze cycles of the same session id are in progress at the
\* same time.
C4_NoOverlapPerSession ==
    \A c1, c2 \in Cycles :
        (c1 # c2 /\ InProgress(c1) /\ InProgress(c2)) => cyc[c1].sid # cyc[c2].sid

\* C5: nothing is recorded on a SessionState that was deleted: its history,
\* cooldown table, streak counters and hook_results stay as they were.
C5_DeletedSessionUntouched ==
    [][\A o \in Objs :
          Deleted(o) =>
              /\ objs'[o].history = objs[o].history
              /\ objs'[o].last_event_time = objs[o].last_event_time
              /\ objs'[o].consecutive_good = objs[o].consecutive_good
              /\ objs'[o].consecutive_bad = objs[o].consecutive_bad
              /\ objs'[o].hook_results = objs[o].hook_results]_vars

\* C6: every analyze cycle that is in progress returns, whether or not its
\* classifier calls ever answer.
C6_EveryCycleReturns ==
    \A c \in Cycles : InProgress(c) ~> (cyc[c].pc = "done")

\* C7: no exception leaves analyze: every call returns one event, which is a
\* fused event, a hook result, a placeholder or a fallback.
C7_NoExceptionEscapes ==
    /\ ~last_ret.raised
    /\ last_ret.path \in {"", "collecting", "normal", "hook", "hook_fallback", "fallback"}

\* a classifier call raised, or the validator did, and the call still returned
C7_Witness ==
    /\ last_ret.cycle # 0
    /\ last_ret.path = "fallback"
    /\ last_ret.err = "Exception"
    /\ last_ret.v_res.t = "exc"

\* C8: a normal-phase cycle in which no classifier gave a usable verdict
\* returns GOOD, score 0.70, message CONNECTING..., buzz false.
C8_BothAbsentGivesFallback ==
    (/\ last_ret.branch \in {"gather", "vision_only"}
     /\ ~ValidReply(last_ret.a_res)
     /\ ~ValidReply(last_ret.v_res))
    => /\ last_ret.event.event = "GOOD"
       /\ last_ret.event.score = 7000
       /\ last_ret.event.message = "CONNECTING..."
       /\ last_ret.event.buzz = FALSE

\* the audio call raised and the vision call gave an empty text
C8_Witness ==
    /\ last_ret.branch = "gather"
    /\ last_ret.a_res.t = "exc"
    /\ last_ret.v_res.t = "empty"

C10_CooldownKeepsOtherFields ==
    last_ret.on_cooldown =>
        last_ret.event = [last_ret.fused[1] EXCEPT !.buzz = FALSE]

\* the event a cycle recorded last on the SessionState o
LastRecorded(o) == objs[o].history[Len(objs[o].history)]

\* C11: the cooldown gate keeps the visible feedback: the event a normal-phase
\* cycle returns and records has the kind, score and message of the fused
\* event, whether or not the kind is on cooldown.
C11_GateKeepsFeedback ==
    last_ret.path = "normal" =>
        /\ last_ret.event.event = last_ret.fused[1].event
        /\ last_ret.event.score = last_ret.fused[1].score
        /\ last_ret.event.message = last_ret.fused[1].message
        /\ objs[last_ret.sess].history # <<>>
        /\ LastRecorded(last_ret.sess) = last_ret.event

\* a fused event that asked for a buzz came out of the gate without it
C11_Witness ==
    /\ last_ret.path = "normal"
    /\ last_ret.on_cooldown
    /\ last_ret.fused[1].buzz
    /\ ~last_ret.event.buzz
    /\ last_ret.event.message # ""

\* C12: is_on_cooldown(GOOD) is false for every SessionState at every time,
\* and a fused GOOD event passes the cooldown gate unaltered.
C12_GoodNeverOnCooldown ==
    /\ \A o \in Objs : \A t \in Epoch..(Epoch + MaxTime) :
          ~is_on_cooldown(objs[o], "GOOD", t)
    /\ (last_ret.path = "normal" /\ last_ret.fused[1].event = "GOOD")
          => (~last_ret.on_cooldown /\ last_ret.event = last_ret.fused[1])

\* a GOOD event went through the gate right after another GOOD was recorded
C12_Witness ==
    /\ last_ret.path = "normal"
    /\ last_ret.fused[1].event = "GOOD"
    /\ Len(objs[last_ret.sess].history) >= 2
    /\ objs[last_ret.sess].history[Len(objs[last_ret.sess].history) - 1].event = "GOOD"
    /\ objs[last_ret.sess].last_event_time["GOOD"] = now

\* how many events at the end of h are GOOD (good = TRUE) or are not GOOD
RECURSIVE Trailing(_, _)
Trailing(h, good) ==
    IF h = <<>> THEN 0
    ELSE IF (h[Len(h)].event = "GOOD") = good
    THEN 1 + Trailing(SubSeq(h, 1, Len(h) - 1), good)
    ELSE 0

\* C13: after any sequence of record() calls consecutive_good is the number of
\* GOOD events at the end of the history and consecutive_bad the number of
\* events other than GOOD at its end; HOOK_GOOD counts as not GOOD.
C13_StreakCounters ==
    \A o \in Objs :
        /\ objs[o].consecutive_good = Trailing(objs[o].history, TRUE)
        /\ objs[o].consecutive_bad = Trailing(objs[o].history, FALSE)

\* two GOOD records brought consecutive_good to 2, then a HOOK_GOOD reset it
C13_Witness ==
    /\ Len(objs[1].history) = 3
    /\ objs[1].history[1].event = "GOOD"
    /\ objs[1].history[2].event = "GOOD"
    /\ objs[1].history[3].event = "HOOK_GOOD"
    /\ objs[1].consecutive_good = 0
    /\ objs[1].consecutive_bad = 1

\* C14: the history of a SessionState only grows, one event at a time and at
\* its end, and the timestamps of its events never decrease along the list,
\* in every interleaving of cycles.
C14_HistoryAppendOnly ==
    [][\A o \in Objs :
          LET h  == objs[o].history
              h2 == objs'[o].history
          IN  /\ \/ h2 = h
                 \/ Len(h2) = Len(h) + 1 /\ SubSeq(h2, 1, Len(h)) = h
              /\ \A i \in 1..(Len(h2) - 1) : h2[i].timestamp <= h2[i + 1].timestamp]_vars

\* two overlapping cycles recorded on one session: the normal-phase cycle that
\* started later recorded first, the hook evaluation after it
C14_Witness ==
    \E o \in Live :
        /\ Len(objs[o].history) = 2
        /\ objs[o].history[1].phase = "normal"
        /\ objs[o].history[2].phase = "hook"

\* C15: while an id is registered every request for it works on the one
\* SessionState registered under it; a SessionState is constructed only for
\* an id that is absent, one per step; and a cycle starts on the state that is
\* registered at that moment, never on one that was removed.
C15_OneStatePerId ==
    [][/\ \A sid \in SessionIds :
            /\ (_sessions[sid] # 0 /\ _sessions'[sid] # 0) => _sessions'[sid] = _sessions[sid]
            /\ (_sessions[sid] = 0 /\ _sessions'[sid] # 0) => _sessions'[sid] = nobjs + 1
       /\ nobjs' # nobjs =>
            /\ nobjs' = nobjs + 1
            /\ \E sid \in SessionIds : _sessions[sid] = 0 /\ _sessions'[sid] = nobjs'
       /\ \A c \in Cycles :
            (cyc[c].pc = "idle" /\ cyc'[c].pc # "idle")
                => (cyc'[c].sess # 0 /\ cyc'[c].sess = _sessions'[cyc'[c].sid])
       /\ (last_ret' # last_ret /\ last_ret'.path = "collecting")
            => \E sid \in SessionIds : last_ret'.sess = _sessions'[sid]]_vars

\* an id was deleted and created again while a cycle of its first state is
\* still in flight: the new request got the second state
C15_Witness ==
    \E c \in Cycles :
        /\ InProgress(c)
        /\ cyc[c].sess = 1
        /\ _sessions[cyc[c].sid] = 2
        /\ last_ret.path = "collecting"
        /\ last_ret.sess = 2

\* C16: the first request for an id that is absent from the registry, after
\* a reset in particular, gets a SessionState that was never used: empty
\* history, empty cooldown table, zero streak counters, no hook results,
\* hook_evaluated false and phase hook.
C16_ResetDropsState ==
    [][\A sid \in SessionIds :
          (_sessions[sid] = 0 /\ _sessions'[sid] # 0) =>
              LET s == objs'[_sessions'[sid]]
              IN  /\ _sessions'[sid] > nobjs
                  /\ s.history = <<>>
                  /\ s.last_event_time = [k \in EventTypes |-> 0]
                  /\ s.consecutive_good = 0
                  /\ s.consecutive_bad = 0
                  /\ s.hook_results = <<>>
                  /\ ~s.hook_evaluated
                  /\ s.phase = "hook"]_vars

\* a session with recorded events was reset and its id used again
C16_Witness ==
    /\ _sessions["s1"] = 2
    /\ objs[1].history # <<>>
    /\ objs[1].hook_evaluated
    /\ objs[2].history = <<>>
    /\ objs[2].phase = "hook"

\* C17: a summary or report lookup answers 404 exactly when the id is not in
\* the registry, and no lookup changes the registry or any SessionState.
C17_LookupNotFound ==
    [][last_http' # last_http =>
          /\ _sessions' = _sessions
          /\ nobjs' = nobjs
          /\ objs' = objs
          /\ last_http'.route \in {"summary", "report"}
          /\ last_http'.status = IF _sessions[last_http'.sid] = 0 THEN 404 ELSE 200]_vars

\* the report of a session that was deleted after it recorded events was asked for
C17_Witness ==
    /\ last_http.route = "report"
    /\ last_http.status = 404
    /\ _sessions[last_http.sid] = 0
    /\ nobjs >= 1
    /\ objs[1].history # <<>>

\* the fields a fused event takes over from a verdict
SameVerdict(e, v) ==
    /\ e.event = v.event
    /\ e.score = v.score
    /\ e.message = v.message
    /\ e.buzz = v.buzz
    /\ e.buzz_pattern = v.buzz_pattern
    /\ e.confidence = v.confidence
    /\ e.reasoning = v.reasoning

\* C18: normal-phase fusion with exactly one verdict present gives an event
\* with the kind, score, message, buzz, buzz pattern, confidence and reasoning
\* of that verdict, for the audio verdict alone and for the vision verdict alone.
C18_SingleVerdictVerbatim ==
    last_ret.path # "" =>
        /\ (last_ret.audio_raw # <<>> /\ last_ret.vision_raw = <<>>)
              => (last_ret.fused # <<>> /\ SameVerdict(last_ret.fused[1], last_ret.audio_raw[1]))
        /\ (last_ret.audio_raw = <<>> /\ last_ret.vision_raw # <<>>)
              => (last_ret.fused # <<>> /\ SameVerdict(last_ret.fused[1], last_ret.vision_raw[1]))

\* the audio verdict alone, with a score of four decimals, came out as it was
C18_Witness ==
    /\ last_ret.audio_raw # <<>>
    /\ last_ret.vision_raw = <<>>
    /\ last_ret.fused # <<>>
    /\ last_ret.fused[1].score = 9004
    /\ last_ret.fused[1].reasoning = "heard"

\* the fixed order of urgency, most urgent first
Urgency == <<"RAISE_ENERGY", "SPEED_UP", "VIBE_CHECK", "VISUAL_RESET", "GOOD">>

Rank(kind) == CHOOSE i \in 1..Len(Urgency) : Urgency[i] = kind

\* the audio verdict is GOOD with confidence above 0.7
Overrides(a) == a.event = "GOOD" /\ a.confidence > 7000

\* both verdicts were present and the fusion has run
BothPresent ==
    last_ret.path = "normal" /\ last_ret.audio_raw # <<>> /\ last_ret.vision_raw # <<>>

\* C19: with both verdicts present and no override, the fused kind, message,
\* buzz and buzz pattern are those of the verdict whose kind is more urgent
\* (RAISE_ENERGY, SPEED_UP, VIBE_CHECK, VISUAL_RESET, GOOD in this order), and
\* those of the audio verdict when the two kinds are the same.
C19_MoreUrgentKindWins ==
    (BothPresent /\ ~Overrides(last_ret.audio_raw[1])) =>
        LET a == last_ret.audio_raw[1]
            v == last_ret.vision_raw[1]
            w == IF Rank(a.event) <= Rank(v.event) THEN a ELSE v
            f == last_ret.fused[1]
        IN  /\ f.event = w.event
            /\ f.message = w.message
            /\ f.buzz = w.buzz
            /\ f.buzz_pattern = w.buzz_pattern

\* audio RAISE_ENERGY 0.3 with vision GOOD 0.8 gave RAISE_ENERGY, score 0.50
C19_Witness ==
    /\ BothPresent
    /\ last_ret.audio_raw[1].event = "RAISE_ENERGY"
    /\ last_ret.audio_raw[1].score = 3000
    /\ last_ret.vision_raw[1].event = "GOOD"
    /\ last_ret.vision_raw[1].score = 8000
    /\ last_ret.fused[1].event = "RAISE_ENERGY"
    /\ last_ret.fused[1].score = 5000
    /\ last_ret.fused[1].message = "A-RAISE_ENERGY"

\* C20 as stated: with both verdicts present, an audio verdict GOOD with
\* confidence above 0.7 gives a fused event GOOD with buzz false and a score
\* of at least the audio score, whatever the vision kind; with confidence 0.7
\* or less the more urgent vision kind wins.
C20_Override ==
    BothPresent =>
        LET a == last_ret.audio_raw[1]
            v == last_ret.vision_raw[1]
            f == last_ret.fused[1]
        IN  /\ Overrides(a) => (f.event = "GOOD" /\ ~f.buzz /\ f.score >= a.score)
            /\ (a.event = "GOOD" /\ a.confidence <= 7000) => f.event = v.event

\* C20 amended: as C20, with the score at least the audio score rounded to
\* three decimals (the fusion rounds its score after raising it).
C20_OverrideRounded ==
    BothPresent =>
        LET a == last_ret.audio_raw[1]
            v == last_ret.vision_raw[1]
            f == last_ret.fused[1]
        IN  /\ Overrides(a) =>
                  (f.event = "GOOD" /\ ~f.buzz /\ f.score >= Round3(a.score, 1))
            /\ (a.event = "GOOD" /\ a.confidence <= 7000) => f.event = v.event

\* audio GOOD with confidence 0.9 overrode vision VIBE_CHECK, and the vision
\* verdict asked for a buzz
C20_Witness ==
    /\ BothPresent
    /\ last_ret.audio_raw[1].event = "GOOD"
    /\ last_ret.audio_raw[1].confidence = 9000
    /\ last_ret.vision_raw[1].event = "VIBE_CHECK"
    /\ last_ret.vision_raw[1].buzz
    /\ last_ret.fused[1].event = "GOOD"
    /\ ~last_ret.fused[1].buzz

\* ten times 0.6 x audio score + 0.4 x vision score
Weighted10(a, v) == 6 * a.score + 4 * v.score

\* C21 as stated: with both verdicts present the fused score is 0.6 x audio
\* score + 0.4 x vision score, raised to the audio score when the override
\* applies and only then, rounded to three decimals; it lies in [0,1], and
\* between the two input scores when the override does not apply.
C21_FusedScore ==
    BothPresent =>
        LET a == last_ret.audio_raw[1]
            v == last_ret.vision_raw[1]
            f == last_ret.fused[1]
        IN  /\ f.score = IF Overrides(a)
                         THEN Round3(Max(Weighted10(a, v), 10 * a.score), 10)
                         ELSE Round3(Weighted10(a, v), 10)
            /\ 0 <= f.score /\ f.score <= 10000
            /\ ~Overrides(a) =>
                  (Min(a.score, v.score) <= f.score /\ f.score <= Max(a.score, v.score))

\* C21 amended: as C21, with the fused score between the two input scores
\* rounded to three decimals when the override does not apply.
C21_FusedScoreRounded ==
    BothPresent =>
        LET a == last_ret.audio_raw[1]
            v == last_ret.vision_raw[1]
            f == last_ret.fused[1]
        IN  /\ f.score = IF Overrides(a)
                         THEN Round3(Max(Weighted10(a, v), 10 * a.score), 10)
                         ELSE Round3(Weighted10(a, v), 10)
            /\ 0 <= f.score /\ f.score <= 10000
            /\ ~Overrides(a) =>
                  /\ Round3(Min(a.score, v.score), 1) <= f.score
                  /\ f.score <= Round3(Max(a.score, v.score), 1)

\* audio and vision both 0.9004 without override gave 0.900, below both
C21_Witness ==
    /\ BothPresent
    /\ ~Overrides(last_ret.audio_raw[1])
    /\ last_ret.audio_raw[1].score = 9004
    /\ last_ret.vision_raw[1].score = 9004
    /\ last_ret.fused[1].score = 9000

\* a hundred times 0.65 x audio score + 0.35 x vision score
HookWeighted100(a, v) == 65 * a.score + 35 * v.score

\* the hook fusion has run on two verdicts
HookBothPresent ==
    last_ret.path = "hook" /\ last_ret.audio_raw # <<>> /\ last_ret.vision_raw # <<>>

Reported == last_http.route = "report" /\ last_http.status = 200

\* the history the latest report was made from
Timeline == objs[_sessions[last_http.sid]].history

\* positions first..last of the timeline are a maximal run of scores below 0.60
MaximalLowRun(first, last) ==
    /\ first <= last
    /\ \A i \in first..last : Timeline[i].score < 6000
    /\ first = 1 \/ Timeline[first - 1].score >= 6000
    /\ last = Len(Timeline) \/ Timeline[last + 1].score >= 6000

\* C23: the problem zones of a report are exactly the maximal runs of scores
\* below 0.60 of length 2 or more, in timeline order and disjoint: a run that
\* reaches the end of the timeline is reported, a single low score is not.
C23_ProblemZonesAreMaximalRuns ==
    Reported =>
        LET z == last_http.zones
            n == Len(Timeline)
        IN  /\ {<<z[i].start_frame, z[i].end_frame>> : i \in 1..Len(z)}
                  = {r \in (1..n) \X (1..n) : MaximalLowRun(r[1], r[2]) /\ r[2] - r[1] + 1 >= 2}
            /\ \A i \in 1..Len(z) : z[i].length = z[i].end_frame - z[i].start_frame + 1
            /\ \A i \in 1..(Len(z) - 1) : z[i].end_frame < z[i + 1].start_frame

\* scores 0.3, 0.3, 0.6, 0.3, 0.5999: the run at the start and the run that
\* reaches the end are both reported
C23_Witness ==
    /\ Reported
    /\ Len(Timeline) = 5
    /\ [i \in 1..5 |-> Timeline[i].score] = <<3000, 3000, 6000, 3000, 5999>>
    /\ Len(last_http.zones) = 2
    /\ last_http.zones[1].start_frame = 1
    /\ last_http.zones[2].end_frame = 5

\* the report was made from the timeline 0.9 0.9 0.5 0.4 0.3 0.9 0.2 0.1 0.9 0.9
ReportedTimeline10 ==
    /\ Reported
    /\ Len(Timeline) = 10
    /\ [i \in 1..10 |-> Timeline[i].score] = Timeline10

\* C24 as stated: for that timeline the report has exactly two problem zones,
\* positions 3 to 5 with average about 0.367 and positions 7 to 8 with
\* average about 0.15.
C24_TwoZones ==
    ReportedTimeline10 =>
        LET z == last_http.zones
        IN  /\ Len(z) = 2
            /\ z[1].start_frame = 3 /\ z[1].end_frame = 5
            /\ z[1].avg_score >= 3620 /\ z[1].avg_score <= 3720
            /\ z[2].start_frame = 7 /\ z[2].end_frame = 8
            /\ z[2].avg_score >= 1450 /\ z[2].avg_score <= 1550

\* C24 amended: for that timeline the report has exactly two problem zones,
\* positions 3 to 5 with average 0.4 and positions 7 to 8 with average 0.15.
C24_TwoZonesAverages ==
    ReportedTimeline10 =>
        LET z == last_http.zones
        IN  /\ Len(z) = 2
            /\ z[1].start_frame = 3 /\ z[1].end_frame = 5 /\ z[1].avg_score = 4000
            /\ z[2].start_frame = 7 /\ z[2].end_frame = 8 /\ z[2].avg_score = 1500

\* the report of that timeline was given, with zones in it
C24_Witness == ReportedTimeline10 /\ last_http.zones # <<>> /\ last_http.events = 10

ConfiguredDuration ==
    [k \in EventTypes \ {"GOOD"} |->
        CASE k = "SPEED_UP"     -> 8
          [] k = "VIBE_CHECK"   -> 10
          [] k = "RAISE_ENERGY" -> 10
          [] k = "VISUAL_RESET" -> 12
          [] OTHER              -> 0]

\* the positions of the history of o that hold an event of the kind
RecordsOf(o, kind) == {i \in 1..Len(objs[o].history) : objs[o].history[i].event = kind}

\* the time of the most recent record of the kind on o
LastRecordTime(o, kind) ==
    objs[o].history[CHOOSE i \in RecordsOf(o, kind) : \A j \in RecordsOf(o, kind) : j <= i].timestamp

\* C26: for a kind other than GOOD, at every time from now on, is_on_cooldown
\* holds exactly when the kind was recorded and less than its duration has
\* passed since its latest record (SPEED_UP 8 s, VIBE_CHECK 10 s, RAISE_ENERGY
\* 10 s, VISUAL_RESET 12 s, hook kinds 0 s): a kind never recorded is not on
\* cooldown, and HOOK_GOOD and HOOK_WEAK never are.
C26_CooldownWindow ==
    \A o \in Objs : \A kind \in EventTypes \ {"GOOD"} : \A t \in now..(now + 13) :
        is_on_cooldown(objs[o], kind, t)
            <=> /\ RecordsOf(o, kind) # {}
                /\ t - LastRecordTime(o, kind) < ConfiguredDuration[kind]

\* RAISE_ENERGY and HOOK_WEAK were recorded: RAISE_ENERGY is on cooldown 9 s
\* later and no longer 10 s later, HOOK_WEAK is not on cooldown at once, and
\* SPEED_UP, never recorded, is not either
C26_Witness ==
    /\ RecordsOf(1, "RAISE_ENERGY") # {}
    /\ RecordsOf(1, "HOOK_WEAK") # {}
    /\ RecordsOf(1, "SPEED_UP") = {}
    /\ is_on_cooldown(objs[1], "RAISE_ENERGY", now + 9)
    /\ ~is_on_cooldown(objs[1], "RAISE_ENERGY", now + 10)
    /\ ~is_on_cooldown(objs[1], "HOOK_WEAK", now)
    /\ ~is_on_cooldown(objs[1], "SPEED_UP", now)

\* C27: the cooldown gate acts on normal-phase events only: the event of the
\* hook evaluation is returned and recorded with the kind, buzz and buzz
\* pattern the hook fusion gave it, whatever the cooldown table holds.
C27_GateOnlyInNormalPhase ==
    /\ last_ret.on_cooldown => last_ret.path = "normal"
    /\ last_ret.path = "hook" =>
          LET raw == HookFuse(last_ret.audio_raw, last_ret.vision_raw)[1]
              s   == objs[last_ret.sess]
          IN  /\ last_ret.event.event = raw.event
              /\ last_ret.event.buzz = raw.buzz
              /\ last_ret.event.buzz_pattern = raw.buzz_pattern
              /\ s.hook_results = <<last_ret.event>>
              /\ \E i \in 1..Len(s.history) : s.history[i] = last_ret.event

\* a hook event with a buzz was returned and recorded on a session whose
\* cooldown table already held a normal-phase kind
C27_Witness ==
    /\ last_ret.path = "hook"
    /\ last_ret.event.event = "HOOK_WEAK"
    /\ last_ret.event.buzz
    /\ \E k \in NormalKinds : objs[last_ret.sess].last_event_time[k] # 0

\* C28: a cycle of one session is never held up by a classifier call of
\* another session: no cycle waits for something a cycle of another session
\* holds.
C28_SessionsIndependent ==
    \A c \in Cycles :
        (cyc[c].a_st = "lockwait" /\ live_lock # 0) => cyc[live_lock].sess = cyc[c].sess

\* a classifier call of the cycle that returned was rejected for rate limiting
RateLimited(ret) == ret.a_res.msg = "429" \/ ret.v_res.msg = "429"

\* C29: a cycle with a rate-limited classifier call returns only out of its
\* backoff sleep, when the delay has passed, whichever path it took.
C29_BackoffBeforeReturn ==
    [][\A c \in Cycles :
          (cyc[c].pc # "done" /\ cyc'[c].pc = "done" /\ RateLimited(last_ret'))
              => (cyc[c].pc = "backoff" /\ now >= cyc[c].wake)]_vars

\* the hook evaluations recorded on the session the latest report was made for
HookResults == objs[_sessions[last_http.sid]].hook_results

\* the verdict the claim gives for the recorded hook evaluations
HookVerdict ==
    IF \E i \in 1..Len(HookResults) : HookResults[i].event = "HOOK_WEAK"
    THEN "WEAK" ELSE "STRONG"

\* C30 as stated: the hook verdict of a report is WEAK when a recorded hook
\* evaluation is HOOK_WEAK and STRONG otherwise, its avg_score is the mean of
\* the recorded hook scores, and a report of a session without a recorded
\* hook evaluation has no hook evaluation at all.
C30_HookVerdict ==
    Reported =>
        /\ HookResults = <<>> => last_http.hook = <<>>
        /\ HookResults # <<>> =>
              /\ last_http.hook # <<>>
              /\ last_http.hook[1].verdict = HookVerdict
              /\ last_http.hook[1].avg_score * Len(HookResults) = SumScores(HookResults)

\* C30 amended: as C30, with avg_score the mean of the recorded hook scores
\* rounded to three decimals.
C30_HookVerdictRounded ==
    Reported =>
        /\ HookResults = <<>> => last_http.hook = <<>>
        /\ HookResults # <<>> =>
              /\ last_http.hook # <<>>
              /\ last_http.hook[1].verdict = HookVerdict
              /\ last_http.hook[1].avg_score = Round3(SumScores(HookResults), Len(HookResults))

\* the hook evaluation fell back and recorded nothing, events were recorded
\* afterwards, and the report has no hook evaluation
C30_Witness ==
    /\ Reported
    /\ HookResults = <<>>
    /\ last_http.events >= 2
    /\ last_http.hook = <<>>

\* C31: a verdict the validator returns has one of the seven kinds, score and
\* confidence in [0,1], a message of at most 14 characters, and buzz false,
\* buzz pattern single and confidence 0.8 where the reply left them out; the
\* validator returns no verdict when event, score or message is missing, the
\* kind is unknown or the reply is not JSON.
C31_ValidatorOutput ==
    last_ret.path = "parsed" =>
        LET r == last_ret.v_res
            out == last_ret.vision_raw
        IN  /\ (\/ r.t # "json"
                \/ r.p.event = "absent" \/ r.p.score = Absent \/ r.p.message = "absent"
                \/ r.p.event \notin EventTypes) => (out = <<>> /\ last_ret.err # "")
            /\ out # <<>> =>
                  /\ out[1].event \in EventTypes
                  /\ 0 <= out[1].score /\ out[1].score <= 10000
                  /\ 0 <= out[1].confidence /\ out[1].confidence <= 10000
                  /\ Len(out[1].message) <= 14
                  /\ r.p.buzz = "absent" => out[1].buzz = FALSE
                  /\ r.p.buzz_pattern = "absent" => out[1].buzz_pattern = "single"
                  /\ r.p.confidence = Absent => out[1].confidence = 8000

\* a reply with score 1.2, a message of 19 characters and no buzz, buzz
\* pattern or confidence came out clamped, cut and with the defaults
C31_Witness ==
    /\ last_ret.path = "parsed"
    /\ last_ret.v_res.p.score = 12000
    /\ last_ret.v_res.p.buzz = "absent"
    /\ last_ret.v_res.p.confidence = Absent
    /\ last_ret.vision_raw # <<>>
    /\ last_ret.vision_raw[1].score = 10000
    /\ last_ret.vision_raw[1].message = "KEEP YOUR ENER"
    /\ last_ret.vision_raw[1].confidence = 8000

\* the buzz patterns the device knows
BuzzPatterns == {"single", "double", "triple", "long"}

\* C32: every event analyze returns and every event in a history has a buzz
\* pattern among single, double, triple and long, whatever the classifiers
\* answered.
C32_BuzzPatternRecognized ==
    /\ last_ret.event.buzz_pattern \in BuzzPatterns
    /\ \A o \in Objs : \A i \in 1..Len(objs[o].history) :
          objs[o].history[i].buzz_pattern \in BuzzPatterns

\* the positions where a burst starts: a sample at or above the on threshold
\* such that every earlier sample at or above it was followed, before this
\* position, by a sample below the off threshold
BurstStarts(samples, on, off) ==
    {i \in 1..Len(samples) :
        /\ samples[i] >= on
        /\ \A j \in 1..(i - 1) :
              samples[j] >= on => \E k \in (j + 1)..(i - 1) : samples[k] < off}

C35_GoodIsSilent ==
    /\ last_ret.event.event = "GOOD" => ~last_ret.event.buzz
    /\ \A o \in Objs : \A i \in 1..Len(objs[o].history) :
          objs[o].history[i].event = "GOOD" => ~objs[o].history[i].buzz

\* the kinds of the normal phase other than GOOD
AlertKinds == {"SPEED_UP", "VIBE_CHECK", "RAISE_ENERGY", "VISUAL_RESET"}

\* C36: two events of a history with the same normal-phase kind other than
\* GOOD that both buzz were recorded at least the kind's cooldown apart, and
\* an event recorded less than the cooldown after the previous event of its
\* kind does not buzz, whether or not that previous event buzzed: a stream of
\* one kind at intervals shorter than the cooldown buzzes only on its first
\* event.
C36_BuzzesCooldownApart ==
    \A o \in Objs : \A kind \in AlertKinds : \A i, j \in RecordsOf(o, kind) :
        i < j =>
            LET h == objs[o].history
            IN  /\ (h[i].buzz /\ h[j].buzz)
                       => h[j].timestamp - h[i].timestamp >= ConfiguredDuration[kind]
                /\ (/\ \A m \in RecordsOf(o, kind) : ~(i < m /\ m < j)
                    /\ h[j].timestamp - h[i].timestamp < ConfiguredDuration[kind])
                       => ~h[j].buzz

\* three RAISE_ENERGY events 6 s apart: the first buzzes, the second is
\* silenced, and the third, 12 s after the first but 6 s after the second,
\* is silenced too
C36_Witness ==
    /\ Len(objs[1].history) = 3
    /\ \A i \in 1..3 : objs[1].history[i].event = "RAISE_ENERGY"
    /\ objs[1].history[1].buzz /\ objs[1].history[1].timestamp = Epoch + 3
    /\ ~objs[1].history[2].buzz /\ objs[1].history[2].timestamp = Epoch + 9
    /\ ~objs[1].history[3].buzz /\ objs[1].history[3].timestamp = Epoch + 15

\* what record() writes: the history, the cooldown table and the two streak
\* counters of a SessionState
Recorded(s) == <<s.history, s.last_event_time, s.consecutive_good, s.consecutive_bad>>

\* C37: the step in which a cycle returns the collecting placeholder, FALLBACK
\* or HOOK_FALLBACK leaves the history, the cooldown table and the streak
\* counters of its session as they were; these only change in a step in which
\* a cycle of that session returns a normal-phase or a hook evaluation event.
C37_PlaceholdersNeverRecord ==
    [][/\ (/\ last_ret' # last_ret
           /\ last_ret'.path \in {"collecting", "fallback", "hook_fallback"})
              => Recorded(objs'[last_ret'.sess]) = Recorded(objs[last_ret'.sess])
       /\ \A o \in Objs :
             Recorded(objs'[o]) # Recorded(objs[o])
                => last_ret'.sess = o /\ last_ret'.path \in {"normal", "hook"}]_vars

\* a cycle returned FALLBACK on a session that already had a recorded event
\* and a running streak
C37_Witness ==
    /\ last_ret.path = "fallback"
    /\ last_ret.event = FALLBACK
    /\ Len(objs[last_ret.sess].history) = 1
    /\ objs[last_ret.sess].consecutive_good + objs[last_ret.sess].consecutive_bad = 1

\* C38: hook_results never holds more than one event; each of its events is
\* in the history of the same SessionState, has phase hook and kind HOOK_GOOD
\* or HOOK_WEAK, whatever kind the classifiers answered; and the history
\* holds no other event of the hook phase.
C38_HookResultsShape ==
    \A o \in Objs :
        /\ Len(objs[o].hook_results) <= 1
        /\ \A i \in 1..Len(objs[o].hook_results) :
              /\ \E j \in 1..Len(objs[o].history) :
                    objs[o].history[j] = objs[o].hook_results[i]
              /\ objs[o].hook_results[i].phase = "hook"
              /\ objs[o].hook_results[i].event \in {"HOOK_GOOD", "HOOK_WEAK"}
        /\ \A j \in 1..Len(objs[o].history) :
              objs[o].history[j].phase = "hook"
                 => /\ objs[o].history[j].event \in {"HOOK_GOOD", "HOOK_WEAK"}
                    /\ objs[o].hook_results = <<objs[o].history[j]>>

\* the hook evaluation had one usable verdict, the audio classifier's
\* RAISE_ENERGY with score 0.3, and recorded it as HOOK_WEAK
C38_Witness ==
    /\ last_ret.path = "hook"
    /\ last_ret.a_res = SaysEnergy
    /\ last_ret.vision_raw = <<>>
    /\ Len(objs[last_ret.sess].hook_results) = 1
    /\ objs[last_ret.sess].hook_results[1].event = "HOOK_WEAK"
    /\ objs[last_ret.sess].hook_results[1] = last_ret.event

\* C39: in every history the event of the hook evaluation, when there is
\* one, is the first element: no normal-phase event precedes it.
C39_HookEventFirst ==
    \A o \in Objs : \A j \in 1..Len(objs[o].history) :
        objs[o].history[j].phase = "hook" => j = 1

\* C40: whatever is appended to the history or the hook_results of a
\* SessionState, or written to its cooldown table, comes from a cycle that
\* started on that very SessionState, hence no earlier than its construction:
\* a cycle that was in flight when the id was reset never writes to the state
\* constructed for the id afterwards.
C40_NoStaleResults ==
    [][\A o \in Objs :
          (\/ Recorded(objs'[o]) # Recorded(objs[o])
           \/ objs'[o].hook_results # objs[o].hook_results)
             => \E c \in Cycles :
                   /\ InProgress(c)
                   /\ cyc'[c].pc = "done"
                   /\ cyc[c].sess = o
                   /\ cyc[c].t_start >= objs[o].recording_start_time
                   /\ last_ret'.cycle = c]_vars

\* the id was reset and used again while a normal-phase cycle of its first
\* state was in flight; the cycle then recorded on the first state and the
\* second state is still empty
C40_Witness ==
    /\ _sessions["s1"] = 2
    /\ last_ret.sess = 1
    /\ last_ret.path = "normal"
    /\ objs[1].history # <<>>
    /\ objs[1].history[Len(objs[1].history)] = last_ret.event
    /\ Recorded(objs[2]) = Recorded(NewSessionState)
    /\ objs[2].hook_results = <<>>
    /\ objs[2].recording_start_time > objs[1].recording_start_time

====
